---- MODULE Spec2Model ----
(***************************************************************************)
(* The authentication layer of server/index.js: the one-time-code routes   *)
(* (check-user, send-otp, verify-otp, signup), the session middleware      *)
(* authenticateSession and the routes behind it (session, logout and the   *)
(* detection/analytics routes).                                            *)
(*                                                                         *)
(* Every `await pool.query(...)` of a handler is one atomic step on the    *)
(* three tables; the synchronous code that follows a query, up to the next *)
(* await, belongs to the step of that query.  Handlers of different        *)
(* requests interleave at their awaits.  Each query may reject, which      *)
(* takes the handler to its catch block.  Two steps are folded into their  *)
(* predecessor because no other handler can observe them apart: the        *)
(* UPDATE of users.last_login (a column no query reads, not carried here)  *)
(* follows the SELECT of the user, and the email dispatch follows the      *)
(* INSERT of the token.                                                    *)
(*                                                                         *)
(* An answer (status and body) is an output, not state: every step that    *)
(* answers has an operator giving its answer, and the step itself changes  *)
(* only the tables and the handlers in flight.                             *)
(*                                                                         *)
(* The detection side (the record normalizer transformRowToDetection with  *)
(* normalizeTimestamp, and the routes that query the detection table) is   *)
(* made of functions of their arguments and of the table.  Each has a      *)
(* specification of its own (SpecTimestamp, SpecRecord, SpecQuery) in      *)
(* which a call is drawn and the function applied to it; call and result   *)
(* stay idle in Spec.                                                      *)
(***************************************************************************)
EXTENDS Integers, Sequences, FiniteSets, Bags, TLC

(* ------------------------------ bounds --------------------------------- *)
MaxInflight == 2
MaxOtp == 2
MaxSessions == 2
MaxTicks == 1

(* ------------------------- program constants --------------------------- *)
OTP_TTL == 5 * 60 * 1000
SESSION_TTL == 7 * 24 * 60 * 60 * 1000

(* symbol 0 of an Authorization header is the text 'Bearer '; a positive   *)
(* symbol n is the text of the n-th token made by generateSessionToken     *)
BEARER == 0

Null == "NULL"

VARIABLES
  users,      \* rows of alpr_data.users
  otp_tokens, \* rows of alpr_data.otp_tokens
  sessions,   \* rows of alpr_data.user_sessions
  nOtp,       \* otp_tokens rows inserted so far (gen_random_uuid)
  nUser,      \* users rows inserted so far (gen_random_uuid)
  nSess,      \* session tokens generated so far (crypto.randomBytes)
  now,        \* the clock, in ms
  ticks,      \* clock advances so far
  inflight,   \* handlers suspended at an await: a bag of their locals
  racing,     \* history: emails whose send-otp in flight overlapped another
  minted,     \* history: every session inserted: its token, the OTP row it
              \*   came from, the route that inserted it and the user object
              \*   of its answer
  loggedOut,  \* history: the tokens whose logout has deleted the session
  detections, \* rows of the detection table (DB_TABLE)
  call,       \* the function or route applied, with its arguments
  result,     \* what it returned
  plateTagSearch,     \* DashboardComponent: the signals of the search
  selectedCamera,
  searching,
  searchResults,
  isSearchMode,
  hasPerformedSearch,
  searchTrigger,
  showDateError,
  dateErrorMessage,
  subscriptions, \* the searchPlate requests subscribed and not yet answered
  nSearch,       \* searchPlate requests subscribed so far
  latest,        \* history: the latest invocation that set searchResults
  delivered      \* history: what the callbacks of each request have set

vars == <<users, otp_tokens, sessions, nOtp, nUser, nSess, now, ticks,
          inflight, racing, minted, loggedOut, detections, call, result,
          plateTagSearch, selectedCamera, searching, searchResults,
          isSearchMode, hasPerformedSearch, searchTrigger, showDateError,
          dateErrorMessage, subscriptions, nSearch, latest, delivered>>

\* the variables of the authentication layer
auth == <<users, otp_tokens, sessions, nOtp, nUser, nSess, now, ticks,
          inflight, racing, minted, loggedOut>>

\* the variables the authentication routes never touch
pure == <<detections, call, result>>

hist == <<racing, minted, loggedOut>>

\* the variables of the dashboard component
dashboard == <<plateTagSearch, selectedCamera, searching, searchResults,
               isSearchMode, hasPerformedSearch, searchTrigger, showDateError,
               dateErrorMessage, subscriptions, nSearch, latest, delivered>>

db == <<users, otp_tokens, sessions>>

(* ------------------------------ strings -------------------------------- *)
\* String.prototype.toLowerCase on the characters of the model
LowerChar(c) == IF c = "A" THEN "a" ELSE IF c = "B" THEN "b" ELSE c

toLowerCase(s) == [i \in 1..Len(s) |-> LowerChar(s[i])]

RECURSIVE TrimStart(_)
TrimStart(s) == IF s # <<>> /\ Head(s) = " " THEN TrimStart(Tail(s)) ELSE s

RECURSIVE TrimEnd(_)
TrimEnd(s) ==
  IF s # <<>> /\ s[Len(s)] = " " THEN TrimEnd(SubSeq(s, 1, Len(s) - 1)) ELSE s

\* String.prototype.trim
trim(s) == TrimEnd(TrimStart(s))

\* email.toLowerCase().trim()
normalizeEmail(email) == trim(toLowerCase(email))

RECURSIVE ReplaceFirst(_, _)
\* String.prototype.replace(x, ''): the first occurrence of x is removed
ReplaceFirst(s, x) ==
  IF s = <<>> THEN <<>>
  ELSE IF Head(s) = x THEN Tail(s)
  ELSE <<Head(s)>> \o ReplaceFirst(Tail(s), x)

(* ------------------------------ inputs --------------------------------- *)
\* the empty sequence is the empty (or missing) body field
RawEmails == { <<>>, <<" ">>, <<"A", " ">>, <<"b">>, <<" ", "B">> }
RawOtps == { <<>>, <<" ", "1">>, <<"2">> }
Names == { "" }
\* what generateOTP can return
Codes == { <<"1">>, <<"2">> }

NoHeader == <<-1>>
Headers ==
  {NoHeader, <<BEARER>>}
    \cup {<<BEARER, t>> : t \in 1..MaxSessions}
    \cup {<<t>> : t \in 1..MaxSessions}

\* app.get(path, authenticateSession, handler) on the detection table
DataRoutes ==
  { "/api/detections/search", "/api/analytics/detections-by-camera",
    "/api/analytics/vehicle-types", "/api/analytics/vehicle-colors",
    "/api/analytics/vehicle-orientations", "/api/detections", "/api/cameras",
    "/api/car-makes", "/api/detections/count", "/api/detections/export",
    "/api/kpis" }

ProtectedRoutes == {"/api/auth/session", "/api/auth/logout"} \cup DataRoutes

\* the protected routes that requests are drawn from: the detection routes
\* differ in nothing that is carried here, one stands for them
Requested == {"/api/auth/session", "/api/auth/logout", "/api/kpis"}

(* ------------------------------ answers -------------------------------- *)
\* return res.status(status).json(body): the handler ends
Answered(status, body) == [status |-> status, body |-> body, suspend |-> {}]

\* the handler awaits its next query with the locals h
Suspended(h) == [status |-> 0, body |-> "", suspend |-> {h}]

(* --------------------------- bag of handlers --------------------------- *)
One(h) == SetToBag({h})

Handlers == BagToSet(inflight)

\* the handlers in flight once a new request has taken its first step
Accept(outcome) ==
  IF outcome.suspend = {} THEN inflight
  ELSE inflight (+) SetToBag(outcome.suspend)

\* the handlers in flight once the handler h has taken a further step
Continue(h, outcome) ==
  IF outcome.suspend = {} THEN inflight (-) One(h)
  ELSE (inflight (-) One(h)) (+) SetToBag(outcome.suspend)

CanAccept == BagCardinality(inflight) < MaxInflight

\* the handlers in flight of the given routes, counted with multiplicity
InFlight(routes) ==
  BagCardinality([h \in {x \in Handlers : x.route \in routes} |-> inflight[h]])

SendsInFlight(email) ==
  BagCardinality([h \in {x \in Handlers :
                           x.route = "/api/auth/send-otp" /\ x.email = email}
                    |-> inflight[h]])

(* ------------------------------ storage -------------------------------- *)
\* gen_random_uuid(): the n-th id of a table
Uuid(table, n) == <<table, n>>

\* result.rows of a query that returns at most one row
Rows(match) == IF match = {} THEN <<>> ELSE <<CHOOSE r \in match : TRUE>>

\* mutant: the query without its verified = FALSE condition
SelectOtpAnyState(email, otp) ==
  LET match == {t \in otp_tokens : t.email = email /\ t.otp_code = otp}
  IN  Rows({t \in match : \A o \in match : o.created_at <= t.created_at})

\* SELECT * FROM otp_tokens WHERE email = $1 AND otp_code = $2
\*   AND verified = FALSE ORDER BY created_at DESC LIMIT 1
SelectOtp(email, otp) ==
  LET match == {t \in otp_tokens :
                  t.email = email /\ t.otp_code = otp /\ t.verified = FALSE}
  IN  Rows({t \in match : \A o \in match : o.created_at <= t.created_at})

\* mutant: no token ever counts as expired
NeverExpired(at, expiresAt) == FALSE

\* now > expiresAt
IsExpired(at, expiresAt) == at > expiresAt

\* mutant: the UPDATE marks no row
MarkNone(id) == otp_tokens

\* UPDATE otp_tokens SET verified = TRUE WHERE id = $1
MarkVerified(id) ==
  {IF t.id = id THEN [t EXCEPT !.verified = TRUE] ELSE t : t \in otp_tokens}

\* SELECT ... FROM users WHERE email = $1 (users.email is UNIQUE)
SelectUser(email) == Rows({u \in users : u.email = email})

\* mutant: the session query without its expires_at condition
SelectSessionAnyAge(sessionToken) ==
  Rows({[id |-> p[1].id, user_id |-> p[1].user_id,
         session_token |-> p[1].session_token,
         expires_at |-> p[1].expires_at,
         email |-> p[2].email, name |-> p[2].name] :
          p \in {q \in sessions \X users :
                   /\ q[1].user_id = q[2].id
                   /\ <<q[1].session_token>> = sessionToken}})

\* SELECT us.*, u.email, u.name FROM user_sessions us JOIN users u
\*   ON us.user_id = u.id WHERE us.session_token = $1 AND us.expires_at > now
\* (user_sessions.session_token is UNIQUE)
SelectSession(sessionToken) ==
  Rows({[id |-> p[1].id, user_id |-> p[1].user_id,
         session_token |-> p[1].session_token,
         expires_at |-> p[1].expires_at,
         email |-> p[2].email, name |-> p[2].name] :
          p \in {q \in sessions \X users :
                   /\ q[1].user_id = q[2].id
                   /\ <<q[1].session_token>> = sessionToken
                   /\ q[1].expires_at > now}})

\* req.headers.authorization?.replace('Bearer ', '')
BearerToken(header) ==
  IF header = NoHeader THEN NoHeader ELSE ReplaceFirst(header, BEARER)

\* !sessionToken
NoToken(sessionToken) == sessionToken = NoHeader \/ sessionToken = <<>>

\* mutant: the DELETE removes every session of the user
DeleteSessionsOfUser(sessionToken) ==
  {s \in sessions :
     \A o \in sessions :
       <<o.session_token>> = sessionToken => o.user_id # s.user_id}

\* mutant: the DELETE of logout removes no row
KeepSessions(sessionToken) == sessions

\* DELETE FROM user_sessions WHERE session_token = $1
DeleteSession(sessionToken) ==
  {s \in sessions : <<s.session_token>> # sessionToken}

\* mutant: the DELETE of send-otp removes no row
KeepOtps(email) == otp_tokens

\* DELETE FROM otp_tokens WHERE email = $1
DeleteOtps(email) == {t \in otp_tokens : t.email # email}

\* mutant: the token is stored as verified
NewOtpVerified(email, otp, expiresAt) ==
  [id |-> Uuid("otp_tokens", nOtp + 1), email |-> email, otp_code |-> otp,
   expires_at |-> expiresAt, verified |-> TRUE, created_at |-> nOtp + 1]

\* INSERT INTO otp_tokens (email, otp_code, expires_at): the new row;
\* created_at, of which only the order is read, counts the inserts
NewOtp(email, otp, expiresAt) ==
  [id |-> Uuid("otp_tokens", nOtp + 1), email |-> email, otp_code |-> otp,
   expires_at |-> expiresAt, verified |-> FALSE, created_at |-> nOtp + 1]

\* name || null
NameOrNull(name) == IF name = "" THEN Null ELSE name

\* INSERT INTO users (email, name, last_login) ... RETURNING *: the new row
NewUser(email, name) ==
  [id |-> Uuid("users", nUser + 1), email |-> email,
   name |-> NameOrNull(name)]

(* ------------------------- JavaScript values --------------------------- *)
\* a value is tagged with its type (typeof, with null, arrays and Date told
\* apart); a string is a string of the model, an object a function from its
\* own property names to values
Undef == [t |-> "undefined"]
JNull == [t |-> "null"]
Bool(b) == [t |-> "boolean", b |-> b]
Str(s) == [t |-> "string", s |-> s]
Obj(o) == [t |-> "object", o |-> o]
Arr(a) == [t |-> "array", a |-> a]

\* a number that is an integer, in decimal: its sign and the digits of its
\* magnitude without leading zeros (timestamps in milliseconds do not fit
\* the integers of the model checker)
Number(neg, d) == [t |-> "number", neg |-> neg, d |-> d]
Num(d) == Number(FALSE, d)
NaN == [t |-> "number", nan |-> TRUE]

\* a Date object with its time value
Date(time) == [t |-> "date", time |-> time]

\* {}
EmptyObject == Obj(<<>>)

\* value.key of a value that is neither null nor undefined
Get(value, key) ==
  IF value.t = "object" /\ key \in DOMAIN value.o THEN value.o[key]
  ELSE Undef

\* !value
Falsy(value) ==
  \/ value \in {Undef, JNull, NaN, Bool(FALSE), Str(""), Num("0")}

\* a || b
Or(a, b) == IF Falsy(a) THEN b ELSE a

\* a && b
And(a, b) == IF Falsy(a) THEN a ELSE b

\* no call drawn, and no result yet
NoCall == [fn |-> "none"]
Pending == [t |-> "pending"]

\* the table as the authentication layer finds it
StoredDetections ==
  { [id |-> Num("1"), timestamp |-> Num("1700000000"),
     plate_tag |-> Str("ABC123"), camera_id |-> Str("cam-1"),
     camera_name |-> Str("Gate"), metadata |-> JNull] }

(* ------------------------------- Init ---------------------------------- *)
\* DashboardComponent after construction: the initial values of its signals
Constructed ==
  /\ plateTagSearch = ""
  /\ selectedCamera = "All Cameras"
  /\ searching = FALSE
  /\ searchResults = JNull
  /\ isSearchMode = FALSE
  /\ hasPerformedSearch = FALSE
  /\ searchTrigger = 0
  /\ showDateError = FALSE
  /\ dateErrorMessage = ""
  /\ subscriptions = {}
  /\ nSearch = 0
  /\ latest = [fn |-> "none"]
  /\ delivered = {}

\* nothing is applied on the detection side
Idle == call = NoCall /\ result = Pending

\* the tables after initializeDatabase, with one registered user, and no
\* request received
NoRequests ==
  /\ users = {[id |-> Uuid("users", 1), email |-> <<"a">>, name |-> "Ann"]}
  /\ otp_tokens = {}
  /\ sessions = {}
  /\ nOtp = 0
  /\ nUser = 1
  /\ nSess = 0
  /\ now = 0
  /\ ticks = 0
  /\ inflight = EmptyBag
  /\ racing = {}
  /\ minted = {}
  /\ loggedOut = {}

Init ==
  /\ NoRequests
  /\ detections = StoredDetections
  /\ Idle
  /\ Constructed

(* --------------------------- POST check-user --------------------------- *)
CheckUserAnswer(email, ok) ==
  IF email = <<>> \/ trim(email) = <<>>
    THEN Answered(400, "Email is required")
  ELSE IF ~ok
    THEN Answered(500, "Failed to check user")
  ELSE Answered(200, [exists |-> Len(SelectUser(normalizeEmail(email))) > 0])

CheckUser(email, ok) ==
  /\ inflight' = Accept(CheckUserAnswer(email, ok))
  /\ UNCHANGED <<db, nOtp, nUser, nSess, now, ticks, hist>>

(* ---------------------------- POST send-otp ---------------------------- *)
\* validation, generateOTP (it returns otp), expiresAt, and what follows
\* the DELETE of the old tokens
SendOtpBegin(email, otp, ok) ==
  IF email = <<>> \/ trim(email) = <<>>
    THEN Answered(400, "Email is required")
  ELSE IF ~ok
    THEN Answered(500, "Failed to send OTP")
  ELSE Suspended([route |-> "/api/auth/send-otp", pc |-> "insert",
                  email |-> normalizeEmail(email), otp |-> otp,
                  expiresAt |-> now + OTP_TTL])

SendOtpStart(email, otp, ok) ==
  /\ CanAccept
  /\ nOtp + InFlight({"/api/auth/send-otp"}) < MaxOtp
  /\ inflight' = Accept(SendOtpBegin(email, otp, ok))
  /\ IF SendOtpBegin(email, otp, ok).suspend # {}
       THEN /\ otp_tokens' = DeleteOtps(normalizeEmail(email))
            /\ racing' = IF SendsInFlight(normalizeEmail(email)) > 0
                           THEN racing \cup {normalizeEmail(email)}
                           ELSE racing
       ELSE UNCHANGED <<otp_tokens, racing>>
  /\ UNCHANGED <<users, sessions, nOtp, nUser, nSess, now, ticks, minted,
                 loggedOut>>

\* mutant: the answer of send-otp carries the code
SendOtpAnswerWithCode(h, ok, emailSent) ==
  IF ~ok
    THEN Answered(500, "Failed to send OTP")
  ELSE IF ~emailSent
    THEN Answered(500, "Failed to send OTP email")
  ELSE Answered(200, [success |-> TRUE, message |-> "OTP sent to your email",
                      expiresAt |-> h.expiresAt, otp |-> h.otp])

\* mutant: the result of the dispatch is not read
SendOtpAnswerUnchecked(h, ok, emailSent) ==
  IF ~ok
    THEN Answered(500, "Failed to send OTP")
  ELSE Answered(200, [success |-> TRUE, message |-> "OTP sent to your email",
                      expiresAt |-> h.expiresAt])

\* what follows the INSERT of the new token: sendOTPEmail (it returns
\* emailSent) and the answer
SendOtpAnswer(h, ok, emailSent) ==
  IF ~ok
    THEN Answered(500, "Failed to send OTP")
  ELSE IF ~emailSent
    THEN Answered(500, "Failed to send OTP email")
  ELSE Answered(200, [success |-> TRUE, message |-> "OTP sent to your email",
                      expiresAt |-> h.expiresAt])

SendOtpInsert(h, ok, emailSent) ==
  /\ h.route = "/api/auth/send-otp" /\ h.pc = "insert"
  /\ inflight' = Continue(h, SendOtpAnswer(h, ok, emailSent))
  /\ racing' = IF SendsInFlight(h.email) > 1 THEN racing
               ELSE racing \ {h.email}
  /\ IF ok
       THEN /\ otp_tokens' =
                 otp_tokens \cup {NewOtp(h.email, h.otp, h.expiresAt)}
            /\ nOtp' = nOtp + 1
       ELSE UNCHANGED <<otp_tokens, nOtp>>
  /\ UNCHANGED <<users, sessions, nUser, nSess, now, ticks, minted,
                 loggedOut>>

(* --------------------------- POST verify-otp --------------------------- *)
\* the handlers in flight that may still insert a session
Minting == InFlight({"/api/auth/verify-otp", "/api/auth/signup"})

\* validation, the SELECT of the token and the expiry check
VerifyOtpBegin(email, otp, ok) ==
  IF email = <<>> \/ otp = <<>>
    THEN Answered(400, "Email and OTP are required")
  ELSE IF ~ok
    THEN Answered(500, "Failed to verify OTP")
  ELSE LET rows == SelectOtp(normalizeEmail(email), trim(otp))
       IN  IF Len(rows) = 0
             THEN Answered(401, "Invalid or expired OTP")
           ELSE IF IsExpired(now, rows[1].expires_at)
             THEN Answered(401, "Invalid or expired OTP")
           ELSE Suspended([route |-> "/api/auth/verify-otp", pc |-> "mark",
                           email |-> normalizeEmail(email), otp |-> trim(otp),
                           otpData |-> rows[1]])

VerifyOtpStart(email, otp, ok) ==
  /\ VerifyOtpBegin(email, otp, ok).suspend # {} =>
       CanAccept /\ nSess + Minting < MaxSessions
  /\ inflight' = Accept(VerifyOtpBegin(email, otp, ok))
  /\ UNCHANGED <<db, nOtp, nUser, nSess, now, ticks, hist>>

\* the UPDATE that marks the token verified
VerifyOtpMarked(h, ok) ==
  IF ~ok THEN Answered(500, "Failed to verify OTP")
  ELSE Suspended([h EXCEPT !.pc = "user"])

VerifyOtpMark(h, ok) ==
  /\ h.route = "/api/auth/verify-otp" /\ h.pc = "mark"
  /\ inflight' = Continue(h, VerifyOtpMarked(h, ok))
  /\ otp_tokens' = IF ok THEN MarkVerified(h.otpData.id) ELSE otp_tokens
  /\ UNCHANGED <<users, sessions, nOtp, nUser, nSess, now, ticks, hist>>

\* the SELECT of the user, the UPDATE of last_login, sessionExpiresAt
VerifyOtpFound(h, ok) ==
  IF ~ok THEN Answered(500, "Failed to verify OTP")
  ELSE IF Len(SelectUser(h.email)) = 0
    THEN Answered(404, [error |-> "User not found. Please sign up first.",
                        requiresSignup |-> TRUE])
  ELSE Suspended([route |-> h.route, pc |-> "session", email |-> h.email,
                  otp |-> h.otp, otpData |-> h.otpData,
                  user |-> SelectUser(h.email)[1],
                  sessionExpiresAt |-> now + SESSION_TTL])

VerifyOtpUser(h, ok) ==
  /\ h.route = "/api/auth/verify-otp" /\ h.pc = "user"
  /\ inflight' = Continue(h, VerifyOtpFound(h, ok))
  /\ UNCHANGED <<db, nOtp, nUser, nSess, now, ticks, hist>>

\* generateSessionToken() and the row inserted into user_sessions
NewSession(h) ==
  [id |-> Uuid("user_sessions", nSess + 1), user_id |-> h.user.id,
   session_token |-> nSess + 1, expires_at |-> h.sessionExpiresAt]

\* the INSERT of the session and the 200 answer (of verify-otp and signup)
SessionAnswer(h, ok) ==
  IF ~ok
    THEN Answered(500, IF h.route = "/api/auth/signup"
                         THEN "Failed to sign up" ELSE "Failed to verify OTP")
  ELSE Answered(200, [success |-> TRUE,
                      sessionToken |-> NewSession(h).session_token,
                      user |-> [id |-> h.user.id, email |-> h.user.email,
                                name |-> h.user.name]])

InsertSession(h, ok) ==
  /\ h.pc = "session"
  /\ inflight' = Continue(h, SessionAnswer(h, ok))
  /\ IF ok
       THEN /\ sessions' = sessions \cup {NewSession(h)}
            /\ nSess' = nSess + 1
            /\ minted' = minted \cup {[token |-> NewSession(h).session_token,
                                       otp |-> h.otpData.id, by |-> h.route,
                                       user |-> SessionAnswer(h, ok).body.user]}
       ELSE UNCHANGED <<sessions, nSess, minted>>
  /\ UNCHANGED <<users, otp_tokens, nOtp, nUser, now, ticks, racing,
                 loggedOut>>

VerifyOtpSession(h, ok) ==
  h.route = "/api/auth/verify-otp" /\ InsertSession(h, ok)

(* ----------------------------- POST signup ----------------------------- *)
\* validation, the SELECT of the token and the expiry check
SignupBegin(email, name, otp, ok) ==
  IF email = <<>> \/ otp = <<>>
    THEN Answered(400, "Email and OTP are required")
  ELSE IF ~ok
    THEN Answered(500, "Failed to sign up")
  ELSE LET rows == SelectOtp(normalizeEmail(email), trim(otp))
       IN  IF Len(rows) = 0
             THEN Answered(401, "Invalid or expired OTP")
           ELSE IF IsExpired(now, rows[1].expires_at)
             THEN Answered(401, "Invalid or expired OTP")
           ELSE Suspended([route |-> "/api/auth/signup", pc |-> "mark",
                           email |-> normalizeEmail(email), otp |-> trim(otp),
                           name |-> name, otpData |-> rows[1]])

SignupStart(email, name, otp, ok) ==
  /\ SignupBegin(email, name, otp, ok).suspend # {} =>
       CanAccept /\ nSess + Minting < MaxSessions
  /\ inflight' = Accept(SignupBegin(email, name, otp, ok))
  /\ UNCHANGED <<db, nOtp, nUser, nSess, now, ticks, hist>>

\* the UPDATE that marks the token verified
SignupMarked(h, ok) ==
  IF ~ok THEN Answered(500, "Failed to sign up")
  ELSE Suspended([h EXCEPT !.pc = "exists"])

SignupMark(h, ok) ==
  /\ h.route = "/api/auth/signup" /\ h.pc = "mark"
  /\ inflight' = Continue(h, SignupMarked(h, ok))
  /\ otp_tokens' = IF ok THEN MarkVerified(h.otpData.id) ELSE otp_tokens
  /\ UNCHANGED <<users, sessions, nOtp, nUser, nSess, now, ticks, hist>>

\* mutant: signup does not look for an existing user
SignupUnchecked(h, ok) ==
  IF ~ok THEN Answered(500, "Failed to sign up")
  ELSE Suspended([h EXCEPT !.pc = "create"])

\* the SELECT that looks for an existing user
SignupChecked(h, ok) ==
  IF ~ok THEN Answered(500, "Failed to sign up")
  ELSE IF Len(SelectUser(h.email)) > 0
    THEN Answered(400, "User already exists")
  ELSE Suspended([h EXCEPT !.pc = "create"])

SignupExists(h, ok) ==
  /\ h.route = "/api/auth/signup" /\ h.pc = "exists"
  /\ inflight' = Continue(h, SignupChecked(h, ok))
  /\ UNCHANGED <<db, nOtp, nUser, nSess, now, ticks, hist>>

\* mutant: users.email without its UNIQUE constraint
SignupCreatedTwice(h, ok) ==
  IF ~ok
    THEN Answered(500, "Failed to sign up")
  ELSE Suspended([route |-> h.route, pc |-> "session", email |-> h.email,
                  otp |-> h.otp, otpData |-> h.otpData,
                  user |-> NewUser(h.email, h.name),
                  sessionExpiresAt |-> now + SESSION_TTL])

\* the INSERT of the user, which users.email UNIQUE rejects for a stored
\* email, and sessionExpiresAt
SignupCreated(h, ok) ==
  IF ~ok \/ Len(SelectUser(h.email)) > 0
    THEN Answered(500, "Failed to sign up")
  ELSE Suspended([route |-> h.route, pc |-> "session", email |-> h.email,
                  otp |-> h.otp, otpData |-> h.otpData,
                  user |-> NewUser(h.email, h.name),
                  sessionExpiresAt |-> now + SESSION_TTL])

SignupCreate(h, ok) ==
  /\ h.route = "/api/auth/signup" /\ h.pc = "create"
  /\ inflight' = Continue(h, SignupCreated(h, ok))
  /\ IF SignupCreated(h, ok).suspend # {}
       THEN /\ users' = users \cup {NewUser(h.email, h.name)}
            /\ nUser' = nUser + 1
       ELSE UNCHANGED <<users, nUser>>
  /\ UNCHANGED <<otp_tokens, sessions, nOtp, nSess, now, ticks, hist>>

SignupSession(h, ok) ==
  h.route = "/api/auth/signup" /\ InsertSession(h, ok)

(* ------------------------- authenticateSession ------------------------- *)
\* the middleware: next is TRUE when it calls next() with req.user = user
authenticateSession(header, ok) ==
  IF NoToken(BearerToken(header))
    THEN [next |-> FALSE, status |-> 401,
          body |-> "No session token provided", user |-> <<>>]
  ELSE IF ~ok
    THEN [next |-> FALSE, status |-> 500,
          body |-> "Authentication error", user |-> <<>>]
  ELSE IF Len(SelectSession(BearerToken(header))) = 0
    THEN [next |-> FALSE, status |-> 401,
          body |-> "Invalid or expired session", user |-> <<>>]
  ELSE [next |-> TRUE, status |-> 0, body |-> "",
        user |-> SelectSession(BearerToken(header))]

\* GET /api/auth/session
SessionHandler(user) ==
  Answered(200, [user |-> [id |-> user.id, email |-> user.email,
                           name |-> user.name]])

\* a route on the detection table, which is not carried here: the handler
\* answers from its queries when they succeed (hok), from its catch block
\* when one rejects
DataHandler(route, hok) ==
  IF hok THEN Answered(200, route) ELSE Answered(500, route)

\* the first step of POST /api/auth/logout after the middleware
LogoutBegin(header) ==
  Suspended([route |-> "/api/auth/logout", pc |-> "delete",
             sessionToken |-> BearerToken(header)])

\* the handler registered for the route, up to its first await
Handler(route, header, user, hok) ==
  IF route = "/api/auth/session" THEN SessionHandler(user)
  ELSE IF route = "/api/auth/logout" THEN LogoutBegin(header)
  ELSE DataHandler(route, hok)

\* the outcomes of the handler's own queries on the detection table: they
\* run only in a detection route, after the session query was answered
HandlerQueries(route, ok) ==
  IF ok /\ route \in DataRoutes THEN BOOLEAN ELSE {TRUE}

\* a request to a protected route: the middleware, then the handler
ProtectedBegin(route, header, ok, hok) ==
  IF ~authenticateSession(header, ok).next
    THEN Answered(authenticateSession(header, ok).status,
                  authenticateSession(header, ok).body)
  ELSE Handler(route, header, authenticateSession(header, ok).user[1], hok)

\* mutant: the queries of a detection route empty the table
Truncated(route, table) == IF route \in DataRoutes THEN {} ELSE table

\* the detection table after the queries of the route's handler: each of
\* them is a SELECT
Selected(route, table) == table

Protected(route, header, ok, hok) ==
  /\ ProtectedBegin(route, header, ok, hok).suspend # {} => CanAccept
  /\ inflight' = Accept(ProtectedBegin(route, header, ok, hok))
  /\ detections' = IF authenticateSession(header, ok).next
                      THEN Selected(route, detections) ELSE detections
  /\ UNCHANGED <<db, nOtp, nUser, nSess, now, ticks, hist>>

\* the DELETE of the session and the answer of logout
LogoutAnswer(h, ok) ==
  IF ~ok THEN Answered(500, "Failed to logout")
  ELSE Answered(200, [success |-> TRUE,
                      message |-> "Logged out successfully"])

LogoutDelete(h, ok) ==
  /\ h.route = "/api/auth/logout" /\ h.pc = "delete"
  /\ inflight' = Continue(h, LogoutAnswer(h, ok))
  /\ sessions' = IF ok THEN DeleteSession(h.sessionToken) ELSE sessions
  /\ loggedOut' = IF ok THEN loggedOut \cup {h.sessionToken} ELSE loggedOut
  /\ UNCHANGED <<users, otp_tokens, nOtp, nUser, nSess, now, ticks, racing,
                 minted>>

(* ------------------------------- clock --------------------------------- *)
\* time passes: just beyond the life of a code, or by the life of a session
Delays == {OTP_TTL + 1, SESSION_TTL}

\* a handler lasts milliseconds and these delays minutes or days: the clock
\* is read as advancing between requests
Tick(d) ==
  /\ ticks < MaxTicks
  /\ inflight = EmptyBag
  /\ now + d <= 2 * SESSION_TTL
  /\ now' = now + d
  /\ ticks' = ticks + 1
  /\ UNCHANGED <<db, nOtp, nUser, nSess, inflight, hist>>

(* -------------------------------- Next --------------------------------- *)
Next ==
  \/ /\ \E email \in RawEmails, ok \in BOOLEAN : CheckUser(email, ok)
     /\ UNCHANGED <<pure, dashboard>>
  \/ /\ \E email \in RawEmails, otp \in Codes, ok \in BOOLEAN :
          SendOtpStart(email, otp, ok)
     /\ UNCHANGED <<pure, dashboard>>
  \/ /\ \E h \in Handlers, ok \in BOOLEAN, emailSent \in BOOLEAN :
          SendOtpInsert(h, ok, emailSent)
     /\ UNCHANGED <<pure, dashboard>>
  \/ /\ \E email \in RawEmails, otp \in RawOtps, ok \in BOOLEAN :
          VerifyOtpStart(email, otp, ok)
     /\ UNCHANGED <<pure, dashboard>>
  \/ /\ \E h \in Handlers, ok \in BOOLEAN : VerifyOtpMark(h, ok)
     /\ UNCHANGED <<pure, dashboard>>
  \/ /\ \E h \in Handlers, ok \in BOOLEAN : VerifyOtpUser(h, ok)
     /\ UNCHANGED <<pure, dashboard>>
  \/ /\ \E h \in Handlers, ok \in BOOLEAN : VerifyOtpSession(h, ok)
     /\ UNCHANGED <<pure, dashboard>>
  \/ /\ \E email \in RawEmails, name \in Names, otp \in RawOtps,
            ok \in BOOLEAN : SignupStart(email, name, otp, ok)
     /\ UNCHANGED <<pure, dashboard>>
  \/ /\ \E h \in Handlers, ok \in BOOLEAN : SignupMark(h, ok)
     /\ UNCHANGED <<pure, dashboard>>
  \/ /\ \E h \in Handlers, ok \in BOOLEAN : SignupExists(h, ok)
     /\ UNCHANGED <<pure, dashboard>>
  \/ /\ \E h \in Handlers, ok \in BOOLEAN : SignupCreate(h, ok)
     /\ UNCHANGED <<pure, dashboard>>
  \/ /\ \E h \in Handlers, ok \in BOOLEAN : SignupSession(h, ok)
     /\ UNCHANGED <<pure, dashboard>>
  \/ /\ \E route \in Requested, header \in Headers, ok \in BOOLEAN :
          \E hok \in HandlerQueries(route, ok) :
            Protected(route, header, ok, hok)
     /\ UNCHANGED <<call, result, dashboard>>
  \/ /\ \E h \in Handlers, ok \in BOOLEAN : LogoutDelete(h, ok)
     /\ UNCHANGED <<pure, dashboard>>
  \/ /\ \E d \in Delays : Tick(d)
     /\ UNCHANGED <<pure, dashboard>>

Spec == Init /\ [][Next]_vars

(* --------------------------- strings and numbers ----------------------- *)
\* s.charAt(i - 1)
CharAt(s, i) == SubSeq(s, i, i)

\* s.slice(i - 1)
Slice(s, i) == SubSeq(s, i, Len(s))

RECURSIVE StrTrimStart(_)
StrTrimStart(s) ==
  IF Len(s) > 0 /\ CharAt(s, 1) = " " THEN StrTrimStart(Slice(s, 2)) ELSE s

RECURSIVE StrTrimEnd(_)
StrTrimEnd(s) ==
  IF Len(s) > 0 /\ CharAt(s, Len(s)) = " "
    THEN StrTrimEnd(SubSeq(s, 1, Len(s) - 1))
  ELSE s

\* String.prototype.trim on a string of the model
StrTrim(s) == StrTrimEnd(StrTrimStart(s))

\* the characters \d matches
Digits == {"0", "1", "2", "3", "4", "5", "6", "7", "8", "9"}

\* /^\d+$/.test(s)
IsDigits(s) == Len(s) > 0 /\ \A i \in 1..Len(s) : CharAt(s, i) \in Digits

RECURSIVE DigitPrefix(_)
\* the digits parseInt reads: the longest prefix of digits
DigitPrefix(s) ==
  IF Len(s) > 0 /\ CharAt(s, 1) \in Digits
    THEN CharAt(s, 1) \o DigitPrefix(Slice(s, 2))
  ELSE ""

RECURSIVE StripZeros(_)
\* the digits of the value of a digit string: leading zeros do not count
StripZeros(s) ==
  IF Len(s) > 1 /\ CharAt(s, 1) = "0" THEN StripZeros(Slice(s, 2)) ELSE s

\* parseInt(s, 10): leading white space, a sign, then digits; NaN without
\* a digit
parseInt(s) ==
  LET t == StrTrimStart(s)
      signed == Len(t) > 0 /\ CharAt(t, 1) \in {"-", "+"}
      p == DigitPrefix(IF signed THEN Slice(t, 2) ELSE t)
  IN  IF p = "" THEN NaN
      ELSE Number(signed /\ CharAt(t, 1) = "-" /\ StripZeros(p) # "0",
                  StripZeros(p))

\* the value of a digit
DigitValue(c) == CHOOSE v \in 0..9 : CharAt("0123456789", v + 1) = c

RECURSIVE LexLess(_, _)
\* x < y for digit strings of one length
LexLess(x, y) ==
  IF Len(x) = 0 THEN FALSE
  ELSE IF CharAt(x, 1) # CharAt(y, 1)
    THEN DigitValue(CharAt(x, 1)) < DigitValue(CharAt(y, 1))
  ELSE LexLess(Slice(x, 2), Slice(y, 2))

\* x < y for magnitudes without leading zeros
LessMagnitude(x, y) ==
  Len(x) < Len(y) \/ (Len(x) = Len(y) /\ LexLess(x, y))

\* mutant: a <= b
LessOrEqual(a, b) ==
  IF a.neg # b.neg THEN a.neg
  ELSE IF a.neg THEN ~LessMagnitude(a.d, b.d)
  ELSE ~LessMagnitude(b.d, a.d)

\* a < b for integers
Less(a, b) ==
  IF a.neg # b.neg THEN a.neg
  ELSE IF a.neg THEN LessMagnitude(b.d, a.d)
  ELSE LessMagnitude(a.d, b.d)

\* n * 1000 for an integer
Times1000(n) == IF n.d = "0" THEN n ELSE Number(n.neg, n.d \o "000")

\* Math.round(n): the values carried are integers, which it returns
MathRound(n) == n

\* mutant: the threshold is 1e12
E12 == Num("1000000000000")

\* 1e11
E11 == Num("100000000000")

\* Number.isFinite(n): a double holds magnitudes below 1.8e308
IsFinite(n) == n # NaN /\ Len(n.d) < 309

\* new Date(s).getTime() for a string: the time value of a date string,
\* NaN for a string that is no date
DateParse(s) ==
  IF s = "2024-01-01T00:00:00.000Z" THEN Num("1704067200000")
  ELSE IF s = "1970-01-01T00:00:00.000Z" THEN Num("0")
  ELSE NaN

(* --------------------------- normalizeTimestamp ------------------------ *)
normalizeTimestamp(input) ==
  IF input = JNull \/ input = Undef THEN JNull
  ELSE IF input.t = "date"
    THEN IF input.time = NaN THEN JNull ELSE input.time
  ELSE IF input.t = "number"
    THEN IF input = NaN THEN NaN
         ELSE IF Less(input, E11) THEN MathRound(Times1000(input))
         ELSE MathRound(input)
  ELSE IF input.t = "string" /\ IsDigits(StrTrim(input.s))
    THEN LET n == parseInt(StrTrim(input.s))
         IN  IF ~IsFinite(n) THEN JNull
             ELSE IF Less(n, E11) THEN Times1000(n)
             ELSE n
  ELSE IF input.t = "string"
    THEN IF DateParse(input.s) = NaN THEN JNull ELSE DateParse(input.s)
  ELSE JNull

\* the magnitudes of the numbers drawn: around the threshold 1e11, epochs
\* in seconds and in milliseconds, the largest safe integer
Magnitudes ==
  { "0", "1", "999", "1700000000", "99999999999", "100000000000",
    "100000000001", "1700000000000", "9007199254740991" }

\* the arguments normalizeTimestamp is applied to
TimestampInputs ==
  ({Number(neg, d) : neg \in BOOLEAN, d \in Magnitudes}
     \ {Number(TRUE, "0")})
    \cup {Str(pre \o d \o post) :
            pre \in {"", " ", "0", " 00"}, d \in Magnitudes,
            post \in {"", " "}}
    \cup { JNull, Undef, NaN, Str(""), Str(" "), Str("abc"), Str("-5"),
           Str("12a"), Str("2024-01-01T00:00:00.000Z"),
           Date(Num("1704067200000")), Date(NaN), EmptyObject, Bool(TRUE) }

InitTimestamp ==
  /\ NoRequests
  /\ detections = StoredDetections
  /\ call \in {[fn |-> "normalizeTimestamp", input |-> input] :
                 input \in TimestampInputs}
  /\ result = Pending
  /\ Constructed

\* the call returns
NormalizeTimestamp ==
  /\ call.fn = "normalizeTimestamp"
  /\ result = Pending
  /\ result' = normalizeTimestamp(call.input)
  /\ UNCHANGED <<auth, detections, call, dashboard>>

SpecTimestamp == InitTimestamp /\ [][NormalizeTimestamp]_vars

(* ----------------------------- more strings ---------------------------- *)
UpperLetters == "ABCDEFGHIJKLMNOPQRSTUVWXYZ"
LowerLetters == "abcdefghijklmnopqrstuvwxyz"

\* c.toLowerCase() for one character
LowerOf(c) ==
  IF \E i \in 1..26 : CharAt(UpperLetters, i) = c
    THEN CharAt(LowerLetters, CHOOSE i \in 1..26 : CharAt(UpperLetters, i) = c)
  ELSE c

\* c.toUpperCase() for one character
UpperOf(c) ==
  IF \E i \in 1..26 : CharAt(LowerLetters, i) = c
    THEN CharAt(UpperLetters, CHOOSE i \in 1..26 : CharAt(LowerLetters, i) = c)
  ELSE c

RECURSIVE StrLower(_)
\* String.prototype.toLowerCase on a string of the model
StrLower(s) ==
  IF Len(s) = 0 THEN "" ELSE LowerOf(CharAt(s, 1)) \o StrLower(Slice(s, 2))

RECURSIVE TitleWords(_, _)
\* split(/\s+/), capitalise each word, join(' '): every run of white space
\* becomes one space, every character after it (and the first) is raised
TitleWords(s, start) ==
  IF Len(s) = 0 THEN ""
  ELSE IF CharAt(s, 1) = " "
    THEN (IF Len(s) > 1 /\ CharAt(s, 2) = " " THEN "" ELSE " ")
           \o TitleWords(Slice(s, 2), TRUE)
  ELSE (IF start THEN UpperOf(CharAt(s, 1)) ELSE CharAt(s, 1))
         \o TitleWords(Slice(s, 2), FALSE)

\* toTitleCase(s) for a string s (a falsy s is returned as it is)
toTitleCase(s) == IF s = "" THEN "" ELSE TitleWords(StrLower(s), TRUE)

\* the property name of an index
IndexKey(i) == CharAt("0123456789", i + 1)

RECURSIVE JoinStrings(_)
JoinStrings(seq) ==
  IF Len(seq) = 0 THEN ""
  ELSE IF Len(seq) = 1 THEN seq[1]
  ELSE seq[1] \o "," \o JoinStrings(Tail(seq))

RECURSIVE toString(_)
\* value.toString() of a value that is neither null nor undefined (inside an
\* array, null and undefined give the empty string)
toString(value) ==
  IF value.t = "string" THEN value.s
  ELSE IF value.t = "number"
    THEN (IF value = NaN THEN "NaN"
          ELSE (IF value.neg THEN "-" ELSE "") \o value.d)
  ELSE IF value.t = "boolean" THEN (IF value.b THEN "true" ELSE "false")
  ELSE IF value.t = "array"
    THEN JoinStrings([i \in 1..Len(value.a) |->
                        IF value.a[i] \in {JNull, Undef} THEN ""
                        ELSE toString(value.a[i])])
  ELSE IF value.t \in {"null", "undefined"} THEN ""
  ELSE "[object Object]"

\* typeof value === 'object'
IsObjectType(value) == value.t \in {"object", "array", "null", "date"}

\* the own enumerable properties that {...value} copies
Spread(value) ==
  IF value.t = "object" THEN value.o
  ELSE IF value.t = "string"
    THEN [k \in {IndexKey(i - 1) : i \in 1..Len(value.s)} |->
            Str(CharAt(value.s,
                       CHOOSE i \in 1..Len(value.s) : IndexKey(i - 1) = k))]
  ELSE IF value.t = "array"
    THEN [k \in {IndexKey(i - 1) : i \in 1..Len(value.a)} |->
            value.a[CHOOSE i \in 1..Len(value.a) : IndexKey(i - 1) = k]]
  ELSE <<>>

(* ------------------------------- JSON.parse ---------------------------- *)
\* a detection's metadata as the ALPR processor writes it
FullMetadata ==
  Obj([id |-> Str("det-1"),
       image |-> Obj([height |-> Num("720"), id |-> Str("img-1"),
                      width |-> Num("1280"),
                      timestamp |-> Num("1600000000")]),
       location |-> Obj([lat |-> Num("27"), lon |-> Num("82")]),
       plate |-> Obj([code |-> Str("US-NY"),
                      region |-> Obj([height |-> Num("40"),
                                      width |-> Num("120"),
                                      x |-> Num("10"), y |-> Num("20")]),
                      tag |-> Str("XYZ789")]),
       source |-> Obj([id |-> Str("src-9"), name |-> Str("Lobby"),
                       type |-> Str("camera")]),
       timeOfDay |-> Num("2"),
       timestamp |-> Num("1650000000000"),
       type |-> Str("alpr"),
       vehicle |-> Obj([bearing |-> Num("90"),
                        color |-> Obj([code |-> Str("red")]),
                        occlusion |-> Num("1"),
                        orientation |-> Str("rear"),
                        make |-> Obj([code |-> Str("toyota"),
                                      name |-> Str("TOYOTA")]),
                        type |-> Obj([code |-> Str("suv")])]),
       version |-> Str("2.0")])

\* the JSON texts that parse, each with its value; any other text makes
\* JSON.parse throw
JsonTexts ==
  [text \in {"null", "5", "\"abc\"", "true", "{}", "{full}"} |->
     CASE text = "null" -> JNull
       [] text = "5" -> Num("5")
       [] text = "\"abc\"" -> Str("abc")
       [] text = "true" -> Bool(TRUE)
       [] text = "{}" -> EmptyObject
       [] text = "{full}" -> FullMetadata]

\* metadata as the try block of transformRowToDetection leaves it: the
\* parsed text of a string, {} when JSON.parse throws, row.metadata || {}
\* for what is not a string
ParsedMetadata(row) ==
  IF row.metadata.t = "string"
    THEN IF row.metadata.s \in DOMAIN JsonTexts
           THEN JsonTexts[row.metadata.s]
         ELSE EmptyObject
  ELSE Or(row.metadata, EmptyObject)

(* --------------------------- extractVehicleMake ------------------------ *)
\* candidate.find(Boolean): the first truthy element, or undefined
FindTruthy(a) ==
  IF \E i \in 1..Len(a) : ~Falsy(a[i])
    THEN a[CHOOSE i \in 1..Len(a) :
               ~Falsy(a[i]) /\ \A j \in 1..(i - 1) : Falsy(a[j])]
  ELSE Undef

\* the places where a make may appear, in the order they are tried
MakeCandidates(metadata) ==
  << And(Get(metadata, "vehicle"), Get(Get(metadata, "vehicle"), "make")),
     Get(metadata, "make"),
     Get(metadata, "vehicleMake"),
     And(Get(metadata, "attributes"),
         Get(Get(metadata, "attributes"), "make")),
     And(Get(metadata, "vehicle"),
         Get(Get(metadata, "vehicle"), "manufacturer")),
     And(Get(metadata, "vehicle"), Get(Get(metadata, "vehicle"), "brand")),
     And(Get(metadata, "attributes"),
         Get(Get(metadata, "attributes"), "manufacturer")),
     And(Get(metadata, "attributes"),
         Get(Get(metadata, "attributes"), "brand")) >>

\* what one candidate gives: a make {code, name}, or null to go on
MakeOfCandidate(candidate) ==
  LET value == IF candidate.t = "array" THEN FindTruthy(candidate.a)
               ELSE candidate
  IN  IF Falsy(candidate) \/ Falsy(value) THEN JNull
      ELSE IF value.t = "string"
        THEN IF StrTrim(value.s) # ""
               THEN Obj([code |-> Str(StrLower(StrTrim(value.s))),
                         name |-> Str(StrTrim(value.s))])
             ELSE JNull
      ELSE IF IsObjectType(value)
        THEN LET name == toString(Or(Or(Get(value, "name"),
                                        Get(value, "code")), Str("")))
             IN  IF name # ""
                   THEN Obj([code |->
                               Str(StrLower(toString(Or(Get(value, "code"),
                                                        Str(name))))),
                             name |-> Str(name)])
                 ELSE JNull
      ELSE JNull

extractVehicleMake(metadata) ==
  IF Falsy(metadata) \/ ~IsObjectType(metadata) THEN JNull
  ELSE LET made == [i \in 1..8 |-> MakeOfCandidate(MakeCandidates(metadata)[i])]
       IN  IF \E i \in 1..8 : made[i] # JNull
             THEN made[CHOOSE i \in 1..8 :
                         made[i] # JNull /\ \A j \in 1..(i - 1) : made[j] = JNull]
           ELSE JNull

(* ------------------------ transformRowToDetection ---------------------- *)
\* { code: 'unknown', name: 'N/A' }
UnknownNA == Obj([code |-> Str("unknown"), name |-> Str("N/A")])

\* the vehicle a detection starts with
DefaultVehicle ==
  [bearing |-> Num("0"), color |-> Obj([code |-> Str("unknown")]),
   occlusion |-> Num("0"), orientation |-> UnknownNA, make |-> UnknownNA,
   type |-> UnknownNA]

\* metadata.vehicle || metadata.vehicleData ||
\*   (metadata.attributes && metadata.attributes.vehicle) || null
VehicleData(metadata) ==
  Or(Or(Or(Get(metadata, "vehicle"), Get(metadata, "vehicleData")),
        And(Get(metadata, "attributes"),
            Get(Get(metadata, "attributes"), "vehicle"))),
     JNull)

\* x.code || x.name || 'unknown' for an object, x itself otherwise
Coded(x) ==
  IF IsObjectType(x)
    THEN Or(Or(Get(x, "code"), Get(x, "name")), Str("unknown"))
  ELSE x

VehicleColor(vehicleData) ==
  LET color == Get(vehicleData, "color")
  IN  IF Falsy(color) THEN DefaultVehicle.color
      ELSE IF IsObjectType(color) THEN Obj([code |-> Coded(color)])
      ELSE Obj([code |-> color])

OrientationName(code) ==
  IF code = Str("rear") THEN Str("Rear")
  ELSE IF code = Str("front") THEN Str("Front")
  ELSE IF code = Str("side") THEN Str("Side")
  ELSE IF code = Str("back") THEN Str("Rear")
  ELSE IF code = Str("forward") THEN Str("Front")
  ELSE Str("N/A")

VehicleOrientation(vehicleData) ==
  LET orientation == Get(vehicleData, "orientation")
  IN  IF Falsy(orientation) THEN DefaultVehicle.orientation
      ELSE Obj([code |-> Coded(orientation),
                name |-> Or(IF IsObjectType(orientation)
                              THEN Get(orientation, "name") ELSE JNull,
                            OrientationName(Coded(orientation)))])

\* the make read from vehicleData.make, then replaced by the make that
\* extractVehicleMake finds in the metadata
VehicleMake(vehicleData, metadata) ==
  LET value == Get(vehicleData, "make")
      name == toTitleCase(toString(Or(Or(Get(value, "name"),
                                         Get(value, "code")), Str("N/A"))))
      own == IF Falsy(value) THEN DefaultVehicle.make
             ELSE IF value.t = "string"
               THEN Obj([code |-> Str(StrLower(value.s)),
                         name |-> Str(toTitleCase(value.s))])
             ELSE IF IsObjectType(value)
               THEN Obj([code |-> Str(StrLower(toString(
                                    Or(Get(value, "code"), Str(name))))),
                         name |-> Str(name)])
             ELSE DefaultVehicle.make
      metaLevelMake == extractVehicleMake(metadata)
  IN  IF metaLevelMake # JNull
        THEN Obj([code |-> Str(StrLower(metaLevelMake.o.code.s)),
                  name |-> Str(toTitleCase(metaLevelMake.o.name.s))])
      ELSE own

TypeName(code) ==
  IF code = Str("sedan") THEN Str("Sedan")
  ELSE IF code = Str("suv") THEN Str("SUV")
  ELSE IF code = Str("truck") THEN Str("Truck")
  ELSE IF code = Str("van") THEN Str("Van")
  ELSE IF code = Str("car") THEN Str("Car")
  ELSE IF code = Str("motorcycle") THEN Str("Motorcycle")
  ELSE IF code = Str("bus") THEN Str("Bus")
  ELSE Str("N/A")

VehicleType(vehicleData) ==
  LET type == Get(vehicleData, "type")
  IN  IF Falsy(type) THEN DefaultVehicle.type
      ELSE Obj([code |-> Coded(type),
                name |-> Or(IF IsObjectType(type)
                              THEN Get(type, "name") ELSE JNull,
                            TypeName(Coded(type)))])

\* vehicleData.key when it is neither undefined nor null, else the default
Given(vehicleData, key) ==
  IF Get(vehicleData, key) # Undef /\ Get(vehicleData, key) # JNull
    THEN Get(vehicleData, key)
  ELSE DefaultVehicle[key]

Vehicle(metadata) ==
  LET vehicleData == VehicleData(metadata)
  IN  IF Falsy(vehicleData) THEN Obj(DefaultVehicle)
      ELSE Obj([bearing |-> Given(vehicleData, "bearing"),
                color |-> VehicleColor(vehicleData),
                occlusion |-> Given(vehicleData, "occlusion"),
                orientation |-> VehicleOrientation(vehicleData),
                make |-> VehicleMake(vehicleData, metadata),
                type |-> VehicleType(vehicleData)])

\* metadata.plate with its tag filled in, or a plate made of the columns
Plate(row, metadata) ==
  LET plate == Get(metadata, "plate")
  IN  IF ~Falsy(plate)
        THEN Obj(("tag" :> Or(Or(Get(plate, "tag"), row.plate_tag), Str("")))
                   @@ Spread(plate))
      ELSE Obj([code |-> Str("US-FL"),
                region |-> Obj([height |-> Num("0"), width |-> Num("0"),
                                x |-> Num("0"), y |-> Num("0")]),
                tag |-> Or(row.plate_tag, Str(""))])

\* metadata.source with name and id filled in, or a source made of the
\* columns
Source(row, metadata) ==
  LET source == Get(metadata, "source")
  IN  IF ~Falsy(source)
        THEN Obj(("name" :> Or(Or(Get(source, "name"), row.camera_name),
                               Str("N/A")))
                   @@ ("id" :> Or(Or(Get(source, "id"), row.camera_id),
                                  Str("")))
                   @@ Spread(source))
      ELSE Obj([id |-> Or(row.camera_id, Str("")),
                name |-> Or(row.camera_name, Str("N/A")),
                type |-> Str("alpr_processor")])

\* the first of metadata.timestamp, row.timestamp and
\* metadata.image.timestamp that normalizes to a truthy value
Timestamp(row, metadata) ==
  LET fromMetadata == normalizeTimestamp(Get(metadata, "timestamp"))
      fromRow == normalizeTimestamp(row.timestamp)
      fromImage ==
        normalizeTimestamp(And(Get(metadata, "image"),
                               Get(Get(metadata, "image"), "timestamp")))
  IN  IF ~Falsy(fromMetadata) THEN fromMetadata
      ELSE IF ~Falsy(fromRow) THEN fromRow
      ELSE fromImage

\* an exception leaves the function
Threw(error) == [t |-> "threw", error |-> error]

\* metadata.vehicle of a metadata that JSON.parse returned as null raises a
\* TypeError outside the try block
transformRowToDetection(row) ==
  LET metadata == ParsedMetadata(row)
  IN  IF metadata = JNull
        THEN Threw("Cannot read properties of null (reading 'vehicle')")
      ELSE Obj([id |-> Or(row.id, Get(metadata, "id")),
                image |-> Or(Get(metadata, "image"),
                             Obj([height |-> Num("1080"), id |-> Str(""),
                                  width |-> Num("1920")])),
                location |-> Or(Get(metadata, "location"),
                                Obj([lat |-> Num("0"), lon |-> Num("0")])),
                plate |-> Plate(row, metadata),
                source |-> Source(row, metadata),
                timeOfDay |-> Or(Get(metadata, "timeOfDay"), Num("0")),
                timestamp |-> Timestamp(row, metadata),
                type |-> Or(Get(metadata, "type"), Str("alpr")),
                vehicle |-> Vehicle(metadata),
                version |-> Or(Get(metadata, "version"), Str("1.0"))])

\* the values of the metadata column that are drawn
Metadatas ==
  { JNull, EmptyObject, FullMetadata,
    Obj([plate |-> Obj([tag |-> Str("XYZ789")])]),
    Obj([plate |-> EmptyObject, source |-> EmptyObject]),
    Obj([source |-> Obj([name |-> Str("Lobby")])]),
    Obj([vehicle |-> Obj([make |-> Str("ford f150"), color |-> Str("blue"),
                          type |-> Str("truck"),
                          orientation |-> Obj([code |-> Str("front")])])]),
    Obj([vehicleMake |-> Str(" Honda "),
         vehicleData |-> Obj([bearing |-> Num("0")])]),
    Obj([attributes |->
           Obj([vehicle |-> Obj([make |-> Arr(<<Str(""), Str("kia")>>)])])]),
    Obj([make |-> Str("Kia")]),
    Obj([vehicleData |-> Obj([make |-> Str("bmw x5")])]),
    Obj([vehicle |-> Obj([manufacturer |-> Str("Audi")])]),
    Obj([timestamp |-> Num("0")]),
    Obj([timestamp |-> Str("abc"),
         image |-> Obj([timestamp |-> Num("1600000000")])]),
    Str("not json"), Str(""), Str("null"), Str("5"), Str("\"abc\""),
    Str("true"), Str("{}"), Str("{full}") }

\* the rows of the detection table that are drawn: each column with a value
\* or NULL
StorageRows ==
  { [id |-> id, timestamp |-> timestamp, plate_tag |-> plate_tag,
     camera_id |-> camera[1], camera_name |-> camera[2],
     metadata |-> metadata] :
      id \in {Num("7"), JNull},
      timestamp \in {Num("1700000000"), JNull},
      plate_tag \in {Str("ABC123"), JNull},
      camera \in {<<Str("cam-1"), Str("Gate")>>, <<JNull, JNull>>},
      metadata \in Metadatas }

InitRecord ==
  /\ NoRequests
  /\ detections = StoredDetections
  /\ call \in {[fn |-> "transformRowToDetection", row |-> row] :
                 row \in StorageRows}
  /\ result = Pending
  /\ Constructed

\* the call returns or throws
TransformRow ==
  /\ call.fn = "transformRowToDetection"
  /\ result = Pending
  /\ result' = transformRowToDetection(call.row)
  /\ UNCHANGED <<auth, detections, call, dashboard>>

SpecRecord == InitRecord /\ [][TransformRow]_vars

(* --------------------------- detection queries ------------------------- *)
\* the characters of the model's strings in byte order
AsciiOrder ==
  " 0123456789ABCDEFGHIJKLMNOPQRSTUVWXYZabcdefghijklmnopqrstuvwxyz"

Rank(c) == CHOOSE i \in 1..Len(AsciiOrder) : CharAt(AsciiOrder, i) = c

RECURSIVE BytesLess(_, _)
BytesLess(x, y) ==
  IF Len(y) = 0 THEN FALSE
  ELSE IF Len(x) = 0 THEN TRUE
  ELSE IF CharAt(x, 1) # CharAt(y, 1)
    THEN Rank(CharAt(x, 1)) < Rank(CharAt(y, 1))
  ELSE BytesLess(Slice(x, 2), Slice(y, 2))

\* jsonb keeps the keys of an object by length, then by bytes
KeyLess(x, y) == Len(x) < Len(y) \/ (Len(x) = Len(y) /\ BytesLess(x, y))

RECURSIVE JsonbOut(_)
RECURSIVE Members(_, _)
RECURSIVE Elements(_)
\* the text of a jsonb value
JsonbOut(value) ==
  IF value.t = "string" THEN "\"" \o value.s \o "\""
  ELSE IF value.t = "object" THEN "{" \o Members(value.o, DOMAIN value.o) \o "}"
  ELSE IF value.t = "array" THEN "[" \o Elements(value.a) \o "]"
  ELSE IF value.t = "null" THEN "null"
  ELSE toString(value)

Members(o, keys) ==
  IF keys = {} THEN ""
  ELSE LET k == CHOOSE k \in keys : \A j \in keys \ {k} : KeyLess(k, j)
       IN  "\"" \o k \o "\": " \o JsonbOut(o[k])
             \o (IF keys = {k} THEN "" ELSE ", " \o Members(o, keys \ {k}))

Elements(a) ==
  IF Len(a) = 0 THEN ""
  ELSE JsonbOut(a[1]) \o (IF Len(a) = 1 THEN "" ELSE ", " \o Elements(Tail(a)))

\* SQL NULL
SqlNull == JNull

RECURSIVE PathValue(_, _)
\* the jsonb value at a path of keys, SQL NULL when a step is missing
PathValue(value, path) ==
  IF path = <<>> THEN value
  ELSE IF value.t = "object" /\ path[1] \in DOMAIN value.o
    THEN PathValue(value.o[path[1]], Tail(path))
  ELSE SqlNull

\* jsonb_extract_path_text and ->>: the string itself, the text of any other
\* value, NULL for a JSON null
PathText(metadata, path) ==
  LET value == PathValue(metadata, path)
  IN  IF value = JNull THEN SqlNull
      ELSE IF value.t = "string" THEN value
      ELSE Str(JsonbOut(value))

\* NULLIF(btrim(text), '')
NullIfBlank(text) ==
  IF text = SqlNull \/ StrTrim(text.s) = "" THEN SqlNull
  ELSE Str(StrTrim(text.s))

\* the paths of CAR_MAKE_SOURCE_SQL in the order of its COALESCE
MakePaths ==
  << <<"vehicle", "make", "name">>, <<"vehicle", "make", "code">>,
     <<"vehicle", "make">>, <<"make">>, <<"vehicleMake">>,
     <<"attributes", "make", "name">>, <<"attributes", "make", "code">>,
     <<"attributes", "make">> >>

\* CAR_MAKE_SOURCE_SQL on the metadata of one row
CarMakeSource(metadata) ==
  LET found == {i \in DOMAIN MakePaths :
                  NullIfBlank(PathText(metadata, MakePaths[i])) # SqlNull}
      first == CHOOSE i \in found : \A j \in found : i <= j
  IN  IF found = {} THEN "unknown"
      ELSE NullIfBlank(PathText(metadata, MakePaths[first])).s

\* value && value !== all && value.trim() !== ''
Provided(value, all) ==
  ~Falsy(value) /\ value # Str(all) /\ StrTrim(value.s) # ""

\* mutant: the make is compared as it was given
MakeValueAsGiven(carMake) == carMake

\* makeValue
MakeValue(carMake) ==
  IF StrLower(StrTrim(carMake.s)) \in {"unknown", "n/a"} THEN Str("unknown")
  ELSE carMake

\* parseInt(value, 10) of a query parameter
ParseIntOf(value) ==
  IF value.t = "string" THEN parseInt(value.s) ELSE NaN

\* the bound of a date range filter, undefined when none is added
RangeBound(value) ==
  IF ~Falsy(value) /\ StrTrim(value.s) # "" /\ ParseIntOf(value) # NaN
    THEN ParseIntOf(value)
  ELSE Undef

\* no condition
NoWhere ==
  [plate |-> Undef, camera |-> Undef, make |-> Undef, start |-> Undef,
   end |-> Undef]

CameraCondition(query) ==
  IF Provided(query.cameraName, "All Cameras") THEN query.cameraName
  ELSE Undef

MakeCondition(query) ==
  IF Provided(query.carMake, "All Makes") THEN MakeValue(query.carMake)
  ELSE Undef

\* the optional plate condition of the export route
PlateCondition(query) ==
  IF ~Falsy(query.plateTag) /\ StrTrim(query.plateTag.s) # ""
    THEN Str("%" \o StrTrim(query.plateTag.s) \o "%")
  ELSE Undef

\* whereConditions of the list and count routes
ListWhere(query) ==
  [NoWhere EXCEPT !.camera = CameraCondition(query),
                  !.make = MakeCondition(query),
                  !.start = RangeBound(query.startTimestamp),
                  !.end = RangeBound(query.endTimestamp)]

\* the search route: the plate condition comes first and is always there
SearchWhere(query) ==
  [ListWhere(query) EXCEPT
     !.plate = Str("%" \o StrTrim(query.plateTag.s) \o "%")]

ExportWhere(query) ==
  [ListWhere(query) EXCEPT !.plate = PlateCondition(query)]

\* the analytics route: camera and make only
AnalyticsWhere(query) ==
  [NoWhere EXCEPT !.camera = CameraCondition(query),
                  !.make = MakeCondition(query)]

\* text contains part
Contains(text, part) ==
  \E i \in 1..(Len(text) - Len(part) + 1) :
    SubSeq(text, i, i + Len(part) - 1) = part

\* LOWER(plate_tag) LIKE LOWER('%part%') for a part without % and _
Like(plate_tag, pattern) ==
  /\ plate_tag # SqlNull
  /\ Contains(StrLower(plate_tag.s),
              StrLower(SubSeq(pattern.s, 2, Len(pattern.s) - 1)))

\* the WHERE clause on one row
Holds(row, where) ==
  /\ where.plate # Undef => Like(row.plate_tag, where.plate)
  /\ where.camera # Undef => row.camera_name = where.camera
  /\ where.make # Undef =>
       StrLower(CarMakeSource(row.metadata)) = StrLower(where.make.s)
  /\ where.start # Undef =>
       row.timestamp # SqlNull /\ ~Less(row.timestamp, where.start)
  /\ where.end # Undef =>
       row.timestamp # SqlNull /\ ~Less(where.end, row.timestamp)

Where(table, where) == {row \in table : Holds(row, where)}

RECURSIVE OrderByTimestampDesc(_)
\* every order ORDER BY timestamp DESC may give: rows of equal timestamp
\* come in any order
OrderByTimestampDesc(rows) ==
  IF rows = {} THEN {<<>>}
  ELSE UNION {{<<row>> \o rest : rest \in OrderByTimestampDesc(rows \ {row})} :
                row \in {r \in rows :
                           \A o \in rows : ~Less(r.timestamp, o.timestamp)}}

\* LIMIT limit OFFSET offset
LimitOffset(rows, limit, offset) ==
  IF offset >= Len(rows) THEN <<>>
  ELSE SubSeq(rows, offset + 1,
              IF offset + limit < Len(rows) THEN offset + limit ELSE Len(rows))

RECURSIVE ValueOf(_)
\* the integer a digit string denotes
ValueOf(d) ==
  IF Len(d) = 0 THEN 0
  ELSE 10 * ValueOf(SubSeq(d, 1, Len(d) - 1)) + DigitValue(CharAt(d, Len(d)))

RECURSIVE Decimal(_)
\* the digit string of a natural number
Decimal(n) ==
  IF n < 10 THEN IndexKey(n) ELSE Decimal(n \div 10) \o IndexKey(n % 10)

\* parseInt(value, 10) || fallback, for values that are not negative
ParsedOr(value, fallback) ==
  IF Falsy(ParseIntOf(value)) THEN fallback ELSE ValueOf(ParseIntOf(value).d)

Json(status, body) == [status |-> status, body |-> body]

\* rows.map(row => transformRowToDetection(row)) inside the try block of a
\* route: the first exception ends the request with a 500
Detections(rows, error) ==
  LET mapped == [i \in DOMAIN rows |-> transformRowToDetection(rows[i])]
      threw == {i \in DOMAIN rows : mapped[i].t = "threw"}
      first == CHOOSE i \in threw : \A j \in threw : i <= j
  IN  IF threw = {} THEN Json(200, Arr(mapped))
      ELSE Json(500, Obj([error |-> Str(error),
                          message |-> Str(mapped[first].error)]))

\* offset
Offset(page, limit) == (page - 1) * limit

\* GET /api/detections
List ==
  /\ call.fn = "list"
  /\ result = Pending
  /\ \E rows \in OrderByTimestampDesc(Where(detections, ListWhere(call.query))) :
       LET page == ParsedOr(call.query.page, 1)
           limit == ParsedOr(call.query.limit, 50)
       IN  result' = Detections(LimitOffset(rows, limit, Offset(page, limit)),
                                "Failed to fetch detections")
  /\ UNCHANGED <<auth, detections, call, dashboard>>

\* GET /api/detections/count
Count ==
  /\ call.fn = "count"
  /\ result = Pending
  /\ result' =
       Json(200, Obj([total |-> Num(Decimal(Cardinality(
                        Where(detections, ListWhere(call.query)))))]))
  /\ UNCHANGED <<auth, detections, call, dashboard>>

\* GET /api/detections/export
Export ==
  /\ call.fn = "export"
  /\ result = Pending
  /\ \E rows \in
         OrderByTimestampDesc(Where(detections, ExportWhere(call.query))) :
       result' = Detections(LimitOffset(rows, 100000, 0),
                            "Failed to export detections")
  /\ UNCHANGED <<auth, detections, call, dashboard>>

\* GET /api/detections/search
Search ==
  /\ call.fn = "search"
  /\ result = Pending
  /\ IF Falsy(call.query.plateTag) \/ StrTrim(call.query.plateTag.s) = ""
       THEN result' = Json(400, Obj([error |-> Str("Plate tag is required")]))
     ELSE \E rows \in OrderByTimestampDesc(
                        Where(detections, SearchWhere(call.query))) :
            result' = Detections(LimitOffset(rows, 100, 0),
                                 "Failed to search detections")
  /\ UNCHANGED <<auth, detections, call, dashboard>>

\* the rows of GROUP BY camera_name with COUNT(*)
GroupByCamera(rows) ==
  {[camera_name |-> name,
    detections |-> Cardinality({row \in rows : row.camera_name = name})] :
     name \in {row.camera_name : row \in rows}}

RECURSIVE OrderByDetectionsDesc(_)
\* every order ORDER BY detections DESC may give
OrderByDetectionsDesc(groups) ==
  IF groups = {} THEN {<<>>}
  ELSE UNION {{<<group>> \o rest :
                 rest \in OrderByDetectionsDesc(groups \ {group})} :
                group \in {g \in groups :
                             \A o \in groups : g.detections >= o.detections}}

\* GET /api/analytics/detections-by-camera
Analytics ==
  /\ call.fn = "analytics"
  /\ result = Pending
  /\ \E groups \in OrderByDetectionsDesc(GroupByCamera(
                     Where(detections, AnalyticsWhere(call.query)))) :
       result' = Json(200, Arr([i \in DOMAIN groups |->
                    Obj([camera |-> Or(groups[i].camera_name, Str("N/A")),
                         detections |-> Num(Decimal(groups[i].detections))])]))
  /\ UNCHANGED <<auth, detections, call, dashboard>>

\* one stored row
Row(id, timestamp, plate_tag, camera_name, metadata) ==
  [id |-> Num(id), timestamp |-> Num(timestamp), plate_tag |-> Str(plate_tag),
   camera_id |-> Str("cam"), camera_name |-> camera_name,
   metadata |-> metadata]

\* the rows the tables are made of: makes given as a string, as an object,
\* as the word Unknown, blank, missing; two rows of equal timestamp; a row
\* without camera; a row whose metadata is the JSON string "null"
RowPool ==
  { Row("1", "300", "ABC123", Str("Gate"),
        Obj([vehicle |-> Obj([make |-> Str("Toyota")])])),
    Row("2", "200", "ABD777", Str("Gate"), JNull),
    Row("3", "200", "XYZ789", Str("Lot"),
        Obj([vehicle |-> Obj([make |-> Obj([name |-> Str("Unknown")])])])),
    Row("4", "100", "abc555", SqlNull,
        Obj([make |-> Str("  "), vehicleMake |-> Str(" toyota ")])),
    Row("5", "100", "QRS111", Str("Lot"),
        Obj([vehicle |-> Obj([make |-> EmptyObject])])),
    Row("6", "400", "ABC999", Str("Gate"), Str("null")) }

MaxRows == 3

\* the tables that are drawn
Tables == {table \in SUBSET RowPool : Cardinality(table) <= MaxRows}

CameraNames == {Undef, Str("All Cameras"), Str("Gate")}
CarMakes == {Undef, Str("All Makes"), Str("N/A"), Str(" unknown"), Str("toyota")}
Bounds == {Undef, Str("200")}
Pages == {Undef, Str("1"), Str("2")}
Limits == {Undef, Str("1"), Str("2")}
PlateTags == {Undef, Str(" abc ")}

\* the query strings that are drawn
Queries(pages, limits, plateTags, starts, ends) ==
  [page : pages, limit : limits, plateTag : plateTags,
   cameraName : CameraNames, carMake : CarMakes, startTimestamp : starts,
   endTimestamp : ends]

Requests ==
  {[fn |-> "list", query |-> q] :
     q \in Queries(Pages, Limits, {Undef}, Bounds, {Undef})}
    \cup {[fn |-> "count", query |-> q] :
            q \in Queries({Undef}, {Undef}, {Undef}, Bounds, Bounds)}
    \cup {[fn |-> "export", query |-> q] :
            q \in Queries({Undef}, {Undef}, PlateTags, Bounds, {Undef})}
    \cup {[fn |-> "search", query |-> q] :
            q \in Queries({Undef}, {Undef}, PlateTags, {Undef}, Bounds)}
    \cup {[fn |-> "analytics", query |-> q] :
            q \in Queries({Undef}, {Undef}, {Undef}, {Undef}, {Undef})}

InitQuery ==
  /\ NoRequests
  /\ detections \in Tables
  /\ call \in Requests
  /\ result = Pending
  /\ Constructed

NextQuery ==
  \/ List
  \/ Count
  \/ Export
  \/ Search
  \/ Analytics

SpecQuery == InitQuery /\ [][NextQuery]_vars

(* ------------------------------ query text ----------------------------- *)
\* `$${n}` in a template literal
Placeholder(n) == [placeholder |-> n]

\* a literal part of a query text
Text(literal) == [literal |-> literal]

\* const queryParams = []; const whereConditions = [];
NoConditions == [conditions |-> <<>>, params |-> <<>>]

\* whereConditions.push(text with $${queryParams.length + 1});
\* queryParams.push(value): the text is kept as its literal parts and its
\* placeholder
Push(built, before, after, value) ==
  [conditions |-> Append(built.conditions,
                         <<Text(before), Placeholder(Len(built.params) + 1)>>
                           \o after),
   params |-> Append(built.params, value)]

AddPlate(built, query) ==
  IF PlateCondition(query) # Undef
    THEN Push(built, "LOWER(plate_tag) LIKE LOWER(", <<Text(")")>>,
              PlateCondition(query))
  ELSE built

AddCamera(built, query) ==
  IF CameraCondition(query) # Undef
    THEN Push(built, "camera_name = ", <<>>, query.cameraName)
  ELSE built

\* mutant: the make is written into the condition
AddMakeInline(built, query) ==
  IF MakeCondition(query) # Undef
    THEN [built EXCEPT !.conditions =
            Append(@, <<Text("(LOWER(CAR_MAKE_SOURCE_SQL) = LOWER('"
                               \o MakeCondition(query).s \o "'))")>>)]
  ELSE built

AddMake(built, query) ==
  IF MakeCondition(query) # Undef
    THEN Push(built, "(LOWER(CAR_MAKE_SOURCE_SQL) = LOWER(", <<Text("))")>>,
              MakeCondition(query))
  ELSE built

AddStart(built, query) ==
  IF RangeBound(query.startTimestamp) # Undef
    THEN Push(built, "timestamp >= ", <<>>, RangeBound(query.startTimestamp))
  ELSE built

AddEnd(built, query) ==
  IF RangeBound(query.endTimestamp) # Undef
    THEN Push(built, "timestamp <= ", <<>>, RangeBound(query.endTimestamp))
  ELSE built

\* the camera, make, start and end conditions in the order the routes add
\* them
AddFilters(built, query) ==
  AddEnd(AddStart(AddMake(AddCamera(built, query), query), query), query)

RECURSIVE JoinAnd(_)
\* whereConditions.join(' AND ')
JoinAnd(conditions) ==
  IF Len(conditions) = 0 THEN <<>>
  ELSE IF Len(conditions) = 1 THEN conditions[1]
  ELSE conditions[1] \o <<Text(" AND ")>> \o JoinAnd(Tail(conditions))

\* the clause added when there are conditions
Clause(keyword, conditions) ==
  IF Len(conditions) > 0 THEN <<Text(keyword)>> \o JoinAnd(conditions) ELSE <<>>

SelectRows ==
  "SELECT id, timestamp, plate_tag, camera_id, camera_name, metadata, source_file FROM alpr_data"

\* the query of GET /api/detections
ListQuery(query) ==
  LET built == AddFilters(NoConditions, query)
      page == ParsedOr(query.page, 1)
      limit == ParsedOr(query.limit, 50)
  IN  [text |-> <<Text(SelectRows)>> \o Clause(" WHERE ", built.conditions)
                  \o <<Text(" ORDER BY timestamp DESC LIMIT "),
                       Placeholder(Len(built.params) + 1), Text(" OFFSET "),
                       Placeholder(Len(built.params) + 2)>>,
       params |-> built.params
                    \o <<Num(Decimal(limit)),
                         Num(Decimal(Offset(page, limit)))>>]

\* the query of GET /api/detections/count
CountQuery(query) ==
  LET built == AddFilters(NoConditions, query)
  IN  [text |-> <<Text("SELECT COUNT(*) FROM alpr_data")>>
                  \o Clause(" WHERE ", built.conditions),
       params |-> built.params]

\* the query of GET /api/detections/search: $1 is written in the text and
\* the further conditions follow with AND
SearchQuery(query) ==
  LET built == AddFilters([conditions |-> <<>>,
                           params |-> <<Str("%" \o StrTrim(query.plateTag.s)
                                              \o "%")>>], query)
  IN  [text |-> <<Text(SelectRows), Text(" WHERE LOWER(plate_tag) LIKE LOWER("),
                  Placeholder(1), Text(")")>>
                  \o Clause(" AND ", built.conditions)
                  \o <<Text(" ORDER BY timestamp DESC LIMIT 100")>>,
       params |-> built.params]

\* the query of GET /api/detections/export
ExportQuery(query) ==
  LET built == AddFilters(AddPlate(NoConditions, query), query)
  IN  [text |-> <<Text(SelectRows)>> \o Clause(" WHERE ", built.conditions)
                  \o <<Text(" ORDER BY timestamp DESC LIMIT 100000")>>,
       params |-> built.params]

\* the query of GET /api/analytics/detections-by-camera
AnalyticsQuery(query) ==
  LET built == AddMake(AddCamera(NoConditions, query), query)
  IN  [text |-> <<Text("SELECT camera_name, COUNT(*) as detections FROM alpr_data")>>
                  \o Clause(" WHERE ", built.conditions)
                  \o <<Text(" GROUP BY camera_name ORDER BY detections DESC")>>,
       params |-> built.params]

(* ------------------------- DashboardComponent -------------------------- *)
\* the plate searches and the general searches that are followed
MaxSearches == 2

\* what is typed in the plate field, and the cameras of the select
PlateInputs == {"", "abc", " xyz "}
CameraOptions == {"All Cameras", "Gate"}

\* the filters no handler of this section changes keep their initial values:
\* selectedCarMake 'All Makes', dateRangeStart '', dateRangeEnd '',
\* currentPage 1; every assignment below that the handlers make to them
\* assigns the value they hold
SearchHistory == <<nSearch, latest, delivered>>

\* onPlateTagChange
OnPlateTagChange(value) ==
  /\ plateTagSearch' = value
  /\ UNCHANGED <<selectedCamera, searching, searchResults, isSearchMode,
                 hasPerformedSearch, searchTrigger, showDateError,
                 dateErrorMessage, subscriptions, SearchHistory>>
  /\ UNCHANGED <<auth, pure>>

\* the signals clearSearch sets
clearSearch ==
  /\ isSearchMode' = FALSE
  /\ searchResults' = JNull
  /\ plateTagSearch' = ""
  /\ selectedCamera' = "All Cameras"
  /\ hasPerformedSearch' = FALSE
  /\ latest' = [fn |-> "clearSearch"]
  /\ UNCHANGED <<searching, searchTrigger, showDateError, dateErrorMessage,
                 subscriptions, nSearch, delivered>>

\* clearSearch, invoked from the template
ClearSearch ==
  /\ clearSearch
  /\ UNCHANGED <<auth, pure>>

\* onCameraChange: the selection is stored, and a search mode is cleared
OnCameraChange(value) ==
  /\ IF isSearchMode
       THEN clearSearch
       ELSE /\ selectedCamera' = value
            /\ UNCHANGED <<plateTagSearch, searching, searchResults,
                           isSearchMode, hasPerformedSearch, searchTrigger,
                           showDateError, dateErrorMessage, subscriptions,
                           SearchHistory>>
  /\ UNCHANGED <<auth, pure>>

\* the request lprDataService.searchPlate sends once subscribed
SearchRequest(plateTag) ==
  [id |-> nSearch + 1, plateTag |-> plateTag, cameraName |-> selectedCamera]

DateErrorText == "Please select at least one filter before searching"

\* performGeneralSearch
performGeneralSearch ==
  LET hasCameraFilter ==
        selectedCamera # "" /\ selectedCamera # "All Cameras"
  IN  IF ~hasCameraFilter
        THEN /\ dateErrorMessage' = DateErrorText
             /\ showDateError' = TRUE
             /\ UNCHANGED <<isSearchMode, searchResults, hasPerformedSearch,
                            searchTrigger, latest>>
        ELSE /\ searchTrigger < MaxSearches
             /\ isSearchMode' = FALSE
             /\ searchResults' = JNull
             /\ hasPerformedSearch' = TRUE
             /\ searchTrigger' = searchTrigger + 1
             /\ latest' = [fn |-> "performGeneralSearch"]
             /\ UNCHANGED <<dateErrorMessage, showDateError>>

\* searchPlate
SearchPlate ==
  LET plateTag == StrTrim(plateTagSearch)
  IN  /\ IF plateTag # ""
           THEN /\ nSearch < MaxSearches
                /\ searching' = TRUE
                /\ isSearchMode' = TRUE
                /\ searchResults' = JNull
                /\ hasPerformedSearch' = TRUE
                /\ subscriptions' = subscriptions \cup {SearchRequest(plateTag)}
                /\ nSearch' = nSearch + 1
                /\ latest' = [fn |-> "searchPlate", id |-> nSearch + 1]
                /\ UNCHANGED <<searchTrigger, showDateError, dateErrorMessage>>
           ELSE /\ performGeneralSearch
                /\ UNCHANGED <<searching, subscriptions, nSearch>>
      /\ UNCHANGED <<plateTagSearch, selectedCamera, delivered>>
      /\ UNCHANGED <<auth, pure>>

\* the bodies the search route may answer a request with
Bodies(request) ==
  { Arr(<<>>),
    Arr(<<[plate_tag |-> request.plateTag,
           camera_name |-> request.cameraName]>>) }

\* a subscription is over once its callback has run
Settle(request, results) ==
  /\ searchResults' = results
  /\ searching' = FALSE
  /\ subscriptions' = subscriptions \ {request}
  /\ delivered' = delivered \cup {[id |-> request.id, results |-> results]}
  /\ UNCHANGED <<plateTagSearch, selectedCamera, isSearchMode,
                 hasPerformedSearch, searchTrigger, showDateError,
                 dateErrorMessage, nSearch, latest>>
  /\ UNCHANGED <<auth, pure>>

\* next: (detections) => { ... }
SearchNext(request, body) ==
  /\ request \in subscriptions
  /\ Settle(request, body)

\* error: (error) => { ... }
SearchError(request) ==
  /\ request \in subscriptions
  /\ Settle(request, Arr(<<>>))

\* closeDateError
CloseDateError ==
  /\ showDateError' = FALSE
  /\ dateErrorMessage' = ""
  /\ UNCHANGED <<plateTagSearch, selectedCamera, searching, searchResults,
                 isSearchMode, hasPerformedSearch, searchTrigger,
                 subscriptions, SearchHistory>>
  /\ UNCHANGED <<auth, pure>>

InitSearch ==
  /\ NoRequests
  /\ detections = StoredDetections
  /\ Idle
  /\ Constructed

NextSearch ==
  \/ \E value \in PlateInputs : OnPlateTagChange(value)
  \/ \E value \in CameraOptions : OnCameraChange(value)
  \/ SearchPlate
  \/ ClearSearch
  \/ \E request \in subscriptions :
       \E body \in Bodies(request) : SearchNext(request, body)
  \/ \E request \in subscriptions : SearchError(request)
  \/ CloseDateError

SpecSearch == InitSearch /\ [][NextSearch]_vars

(* ------------------------------- claims -------------------------------- *)
\* the header's bearer token is the session_token of a stored session that
\* has not expired and whose user exists
HoldsSession(header) ==
  \E s \in sessions :
    /\ BearerToken(header) = <<s.session_token>>
    /\ s.expires_at > now
    /\ \E u \in users : u.id = s.user_id

\* C1: on every protected route, when storage answers the middleware's
\* query, the route handler runs exactly when the request's bearer token is
\* the session_token of a stored session whose expires_at is later than the
\* current time and whose user exists; in every other case the handler does
\* not run and the answer is 401.  (The bearer token is what the middleware
\* extracts: the header with its first 'Bearer ' removed.)
C1_SessionGuard ==
  \A route \in ProtectedRoutes, header \in Headers, hok \in BOOLEAN :
    /\ authenticateSession(header, TRUE).next <=> HoldsSession(header)
    /\ HoldsSession(header) =>
         LET user == authenticateSession(header, TRUE).user[1]
         IN  /\ ProtectedBegin(route, header, TRUE, hok).status =
                  Handler(route, header, user, hok).status
             /\ ProtectedBegin(route, header, TRUE, hok).suspend =
                  Handler(route, header, user, hok).suspend
    /\ ~HoldsSession(header) =>
         /\ ProtectedBegin(route, header, TRUE, hok).status = 401
         /\ ProtectedBegin(route, header, TRUE, hok).suspend = {}

\* a logout handler runs behind the middleware for a session that is still
\* valid, while another stored session has expired
C1_Witness ==
  \E header \in Headers, h \in Handlers :
    /\ HoldsSession(header)
    /\ h.route = "/api/auth/logout"
    /\ h.sessionToken = BearerToken(header)
    /\ \E s \in sessions : s.expires_at <= now

\* C4: a verify-otp or signup request that finds the matching token with
\* the application time later than its expires_at is answered 401 although
\* email and code match, and ends there: it reaches none of the steps that
\* mark the token, create a user or insert a session.
C4_ExpiredRejected ==
  \A email \in RawEmails, otp \in RawOtps, name \in Names :
    LET rows == SelectOtp(normalizeEmail(email), trim(otp))
    IN  (email # <<>> /\ otp # <<>> /\ Len(rows) > 0
           /\ now > rows[1].expires_at) =>
          /\ VerifyOtpBegin(email, otp, TRUE).status = 401
          /\ VerifyOtpBegin(email, otp, TRUE).suspend = {}
          /\ SignupBegin(email, name, otp, TRUE).status = 401
          /\ SignupBegin(email, name, otp, TRUE).suspend = {}

\* a stored unverified token has expired, and a request that presents its
\* email and code is answered 401
C4_Witness ==
  \E email \in RawEmails, otp \in RawOtps :
    LET rows == SelectOtp(normalizeEmail(email), trim(otp))
    IN  /\ email # <<>> /\ otp # <<>> /\ Len(rows) > 0
        /\ now > rows[1].expires_at
        /\ VerifyOtpBegin(email, otp, TRUE).status = 401

\* C6: when a send-otp request for an email runs to its end (its DELETE and
\* its INSERT are executed) and no other send-otp for that email was in
\* flight meanwhile, then exactly one token is stored for the email, the
\* newly generated one, so every token stored earlier for the email is gone;
\* and neither step of the request changes the tokens of another email.
C6_SingleActiveCode ==
  [][/\ \A h \in Handlers, emailSent \in BOOLEAN :
          (SendOtpInsert(h, TRUE, emailSent) /\ h.email \notin racing) =>
            /\ {t \in otp_tokens' : t.email = h.email} =
                 {NewOtp(h.email, h.otp, h.expiresAt)}
            /\ {t \in otp_tokens' : t.email # h.email} =
                 {t \in otp_tokens : t.email # h.email}
     /\ \A email \in RawEmails, otp \in Codes :
          SendOtpStart(email, otp, TRUE) =>
            {t \in otp_tokens' : t.email # normalizeEmail(email)} =
              {t \in otp_tokens : t.email # normalizeEmail(email)}]_vars

\* the second send-otp for an email has run to its end after the first: its
\* token is the only one stored
C6_Witness ==
  /\ nOtp = 2
  /\ racing = {}
  /\ InFlight({"/api/auth/send-otp"}) = 0
  /\ Cardinality(otp_tokens) = 1
  /\ \E t \in otp_tokens : t.id = Uuid("otp_tokens", 2)

\* C8: send-otp answers success only when the email dispatch succeeded: a
\* failed DELETE, a failed INSERT or a failed dispatch each give a 500
\* answer, never success.
C8_SendOtpSuccess ==
  /\ \A email \in RawEmails, otp \in Codes, ok \in BOOLEAN :
       /\ SendOtpBegin(email, otp, ok).status # 200
       /\ (trim(email) # <<>> /\ ~ok) =>
            /\ SendOtpBegin(email, otp, ok).status = 500
            /\ SendOtpBegin(email, otp, ok).suspend = {}
  /\ \A h \in Handlers, ok \in BOOLEAN, emailSent \in BOOLEAN :
       h.route = "/api/auth/send-otp" =>
         /\ SendOtpAnswer(h, ok, emailSent).status = 200 => ok /\ emailSent
         /\ ~(ok /\ emailSent) => SendOtpAnswer(h, ok, emailSent).status = 500

\* a send-otp has stored its token and its answer depends on the dispatch:
\* 200 when it succeeds, 500 when it fails
C8_Witness ==
  \E h \in Handlers :
    /\ h.route = "/api/auth/send-otp"
    /\ SendOtpAnswer(h, TRUE, TRUE).status = 200
    /\ SendOtpAnswer(h, TRUE, FALSE).status = 500

\* the step with which a verify-otp or signup request that passed the code
\* check ends: with requiresSignup, with "User already exists" or with 200
Finishes(h) ==
  \/ VerifyOtpUser(h, TRUE) /\ VerifyOtpFound(h, TRUE).status = 404
  \/ SignupExists(h, TRUE) /\ SignupChecked(h, TRUE).status = 400
  \/ VerifyOtpSession(h, TRUE)
  \/ SignupSession(h, TRUE)

\* C2 (single use, sequentially): once a verify-otp or signup request that
\* passed the code check for an email and code has ended, a verify-otp or
\* signup request with the same email and code is answered 401 and goes no
\* further, so it mints no session.  No send-otp for the email has acted
\* since the first request's check: the token it used is still stored, no
\* token of the email is newer and no send-otp for the email is in flight.
C2_SingleUseSequential ==
  [][\A h \in Handlers, name \in Names :
       ( /\ Finishes(h)
         /\ \E t \in otp_tokens : t.id = h.otpData.id
         /\ \A t \in otp_tokens :
              t.email = h.email => t.created_at <= h.otpData.created_at
         /\ SendsInFlight(h.email) = 0 ) =>
         ( /\ VerifyOtpBegin(h.email, h.otp, TRUE).status = 401
           /\ VerifyOtpBegin(h.email, h.otp, TRUE).suspend = {}
           /\ SignupBegin(h.email, name, h.otp, TRUE).status = 401
           /\ SignupBegin(h.email, name, h.otp, TRUE).suspend = {} )']_vars

\* C3 (single use under concurrency): the sessions that verify-otp requests
\* insert come from distinct tokens: one stored token leads to at most one
\* minted session.
C3_SingleUseConcurrent ==
  \A m1, m2 \in minted :
    ( /\ m1.by = "/api/auth/verify-otp"
      /\ m2.by = "/api/auth/verify-otp"
      /\ m1.otp = m2.otp ) => m1.token = m2.token

\* C5: for an email without user, the verify-otp that presents the correct
\* code ends with requiresSignup and inserts no session, and a signup that
\* follows with the same email and code before the code expires passes the
\* code check (and so can create the user and mint the session).
C5_SignupAfterVerify ==
  [][\A h \in Handlers, name \in Names :
       ( /\ VerifyOtpUser(h, TRUE)
         /\ Len(SelectUser(h.email)) = 0
         /\ ~IsExpired(now, h.otpData.expires_at) ) =>
         /\ VerifyOtpFound(h, TRUE).status = 404
         /\ sessions' = sessions
         /\ (SignupBegin(h.email, name, h.otp, TRUE).suspend # {})']_vars

\* C7: when two tokens of one email stay stored, both unverified, a
\* verify-otp that presents the code of the older one (a code other than
\* that of the most recently created token) is answered 401.
C7_OlderCodeFails ==
  \A t1, t2 \in otp_tokens :
    ( /\ t1.email = t2.email
      /\ ~t1.verified /\ ~t2.verified
      /\ t1.created_at < t2.created_at
      /\ t1.otp_code # t2.otp_code ) =>
      /\ VerifyOtpBegin(t1.email, t1.otp_code, TRUE).status = 401
      /\ VerifyOtpBegin(t1.email, t1.otp_code, TRUE).suspend = {}

\* C9, as stated: once a logout with a token has deleted its session, every
\* request that presents the token to a protected route is answered 401,
\* whatever happened in between.
C9_LoggedOutIs401 ==
  \A route \in ProtectedRoutes, header \in Headers,
     ok \in BOOLEAN, hok \in BOOLEAN :
    BearerToken(header) \in loggedOut =>
      /\ ProtectedBegin(route, header, ok, hok).status = 401
      /\ ProtectedBegin(route, header, ok, hok).suspend = {}

\* C9, amended: once a logout with a token has deleted its session, every
\* request that presents the token to a protected route is turned away by
\* the middleware, whatever happened in between: the handler does not run,
\* and the answer is 401 when storage answers the session query and 500
\* when that query fails.
C9_LoggedOutRejected ==
  \A route \in ProtectedRoutes, header \in Headers,
     ok \in BOOLEAN, hok \in BOOLEAN :
    BearerToken(header) \in loggedOut =>
      /\ ~authenticateSession(header, ok).next
      /\ ProtectedBegin(route, header, ok, hok).status = IF ok THEN 401 ELSE 500
      /\ ProtectedBegin(route, header, ok, hok).suspend = {}

\* a token was logged out, and since then another session was minted and
\* the clock has advanced
C9_Witness ==
  /\ loggedOut # {}
  /\ sessions # {}
  /\ ticks > 0
  /\ \E header \in Headers :
       /\ BearerToken(header) \in loggedOut
       /\ ProtectedBegin("/api/kpis", header, TRUE, TRUE).status = 401

\* C10: after a logout has succeeded, a second logout with the same token is
\* not turned away: the middleware lets it through to the handler, which
\* answers success again.
C10_LogoutIdempotent ==
  [][\A h \in Handlers :
       LogoutDelete(h, TRUE) =>
         ( /\ authenticateSession(<<BEARER>> \o h.sessionToken, TRUE).next
           /\ ProtectedBegin("/api/auth/logout", <<BEARER>> \o h.sessionToken,
                             TRUE, TRUE).status # 401 )']_vars

\* C11: GET /api/auth/session with the token of a stored, unexpired session
\* answers with the user object (id, email, name) that the verify-otp or
\* signup request returned when it minted that token.
C11_SessionReturnsUser ==
  \A m \in minted, header \in Headers :
    (BearerToken(header) = <<m.token>> /\ HoldsSession(header)) =>
      /\ ProtectedBegin("/api/auth/session", header, TRUE, TRUE).status = 200
      /\ ProtectedBegin("/api/auth/session", header, TRUE, TRUE).body =
           [user |-> m.user]

\* a step of the signup handler h before its session INSERT
SignupStep(h, ok) ==
  SignupMark(h, ok) \/ SignupExists(h, ok) \/ SignupCreate(h, ok)

\* C12, as stated: a signup request for an email that has a user is answered
\* with a 4xx status at whichever step it ends.
C12_ExistingUserIs4xx ==
  /\ \A email \in RawEmails, name \in Names, otp \in RawOtps, ok \in BOOLEAN :
       ( /\ Len(SelectUser(normalizeEmail(email))) > 0
         /\ SignupBegin(email, name, otp, ok).suspend = {} ) =>
         SignupBegin(email, name, otp, ok).status \in 400..499
  /\ \A h \in Handlers, ok \in BOOLEAN :
       ( /\ h.route = "/api/auth/signup" /\ h.pc = "exists"
         /\ Len(SelectUser(h.email)) > 0 ) =>
         SignupChecked(h, ok).status \in 400..499

\* C12, amended: a signup request for an email that has a user is rejected
\* at whichever step it ends, also when its code is valid and unexpired: with
\* 400 or 401 when storage answers its queries, with 500 when a query fails
\* (the INSERT of the user, which the unique email rejects, is such a query);
\* it never reaches the session INSERT, and none of its steps changes the
\* users or the sessions.
C12_ExistingUserRejected ==
  /\ [](\A email \in RawEmails, name \in Names, otp \in RawOtps,
           ok \in BOOLEAN :
          ( /\ Len(SelectUser(normalizeEmail(email))) > 0
            /\ SignupBegin(email, name, otp, ok).suspend = {} ) =>
            \/ SignupBegin(email, name, otp, ok).status \in {400, 401}
            \/ ~ok /\ SignupBegin(email, name, otp, ok).status = 500)
  /\ [](\A h \in Handlers, ok \in BOOLEAN :
          (h.route = "/api/auth/signup" /\ Len(SelectUser(h.email)) > 0) =>
            /\ h.pc = "mark" =>
                 \/ ok /\ SignupMarked(h, ok).suspend # {}
                 \/ ~ok /\ SignupMarked(h, ok).status = 500
            /\ h.pc = "exists" =>
                 /\ SignupChecked(h, ok).status = IF ok THEN 400 ELSE 500
                 /\ SignupChecked(h, ok).suspend = {}
            /\ h.pc = "create" =>
                 /\ SignupCreated(h, ok).status = 500
                 /\ SignupCreated(h, ok).suspend = {})
  /\ [][\A h \in Handlers, ok \in BOOLEAN :
          (SignupStep(h, ok) /\ Len(SelectUser(h.email)) > 0) =>
            users' = users /\ sessions' = sessions]_vars

\* a signup for the email of a stored user has passed the code check with a
\* token that has not expired, and its look-up of the user answers 400
C12_Witness ==
  \E h \in Handlers :
    /\ h.route = "/api/auth/signup" /\ h.pc = "exists"
    /\ Len(SelectUser(h.email)) > 0
    /\ ~IsExpired(now, h.otpData.expires_at)
    /\ SignupChecked(h, TRUE).status = 400

\* C13: in every reachable state at most one user is stored per lowercased,
\* trimmed email, whatever the interleaving of the signup requests and the
\* letter case and surrounding spaces of the emails they present.
C13_OneUserPerEmail ==
  \A u1, u2 \in users :
    normalizeEmail(u1.email) = normalizeEmail(u2.email) => u1 = u2

\* two signups for one email passed the look-up of the user together: one
\* has inserted the user, the other is about to execute its INSERT
C13_Witness ==
  \E u \in users, h \in Handlers :
    /\ u.id # Uuid("users", 1)
    /\ h.route = "/api/auth/signup" /\ h.pc = "create"
    /\ h.email = u.email

\* the answers of the requests that present no code and are not send-otp,
\* when their queries succeed: check-user and every protected route under
\* every header (the last step of logout reads nothing but the outcome of
\* its DELETE)
CodeFreeAnswers ==
  [check |-> [email \in RawEmails |-> CheckUserAnswer(email, TRUE)],
   protected |-> [route \in Requested, header \in Headers |->
                    ProtectedBegin(route, header, TRUE, TRUE)]]

\* the answers of the same requests when a query fails: fixed texts
FailureAnswers ==
  /\ \A email \in RawEmails :
       CheckUserAnswer(email, FALSE).body
         \in {"Email is required", "Failed to check user"}
  /\ \A route \in Requested, header \in Headers, hok \in BOOLEAN :
       /\ ProtectedBegin(route, header, FALSE, hok).body
            \in {"No session token provided", "Authentication error"}
       /\ DataHandler(route, FALSE) = Answered(500, route)

\* C14: no answer depends on the code that generateOTP returned.  The
\* answers of send-otp, at its first step and at its last, are the same for
\* every code it may have generated; and the answers of the requests that
\* present no code (check-user, the protected routes) are fixed texts when
\* a query fails and are otherwise read from the users, the sessions and
\* the clock alone, which hold no code: a step that leaves those three
\* unchanged, whatever it does to the stored codes, leaves every such answer
\* unchanged.
C14_CodeNotInAnswers ==
  /\ [](\A email \in RawEmails, ok \in BOOLEAN, c1 \in Codes, c2 \in Codes :
          /\ SendOtpBegin(email, c1, ok).status =
               SendOtpBegin(email, c2, ok).status
          /\ SendOtpBegin(email, c1, ok).body =
               SendOtpBegin(email, c2, ok).body)
  /\ [](\A h \in Handlers, ok \in BOOLEAN, emailSent \in BOOLEAN,
           c \in Codes :
          h.route = "/api/auth/send-otp" =>
            SendOtpAnswer([h EXCEPT !.otp = c], ok, emailSent) =
              SendOtpAnswer(h, ok, emailSent))
  /\ []FailureAnswers
  /\ [][(vars' # vars /\ users' = users /\ sessions' = sessions
          /\ now' = now) =>
           CodeFreeAnswers' = CodeFreeAnswers]_vars

\* a send-otp is about to answer 200 while a token with another code is
\* stored
C14_Witness ==
  \E h \in Handlers, t \in otp_tokens :
    /\ h.route = "/api/auth/send-otp"
    /\ t.otp_code # h.otp
    /\ SendOtpAnswer(h, TRUE, TRUE).status = 200

\* C17: no step of any route changes the detection table; and a request to
\* a detection route (detections, search, count, export, cameras, car-makes,
\* kpis, the analytics routes) changes no stored row at all: its handler
\* ends at its first step, leaving no handler in flight, and no step that
\* leaves the handlers in flight as they are changes users, otp_tokens or
\* user_sessions.
C17_ReadOnly ==
  /\ [][detections' = detections]_vars
  /\ [](\A route \in DataRoutes, hok \in BOOLEAN :
          /\ DataHandler(route, hok).suspend = {}
          /\ Accept(DataHandler(route, hok)) = inflight)
  /\ [][inflight' = inflight => db' = db]_vars

\* a detection route answers 200 for a valid session while the detection
\* table and the token table hold rows
C17_Witness ==
  \E header \in Headers :
    /\ HoldsSession(header)
    /\ ProtectedBegin("/api/detections/export", header, TRUE, TRUE).status
         = 200
    /\ detections # {}
    /\ otp_tokens # {}

\* the digit string s read as a decimal integer
Denoted(s) == Num(StripZeros(s))

\* C20: for an integer n, normalizeTimestamp(n) is n * 1000 when n < 10^11
\* (n is negative or has at most 11 digits) and n when n >= 10^11;
\* normalizeTimestamp(null) and normalizeTimestamp(undefined) are null; and
\* a digit-only string gives what the integer it denotes gives.
C20_SecondsOrMillis ==
  (call.fn = "normalizeTimestamp" /\ result # Pending) =>
    LET n == call.input
    IN  /\ (n.t = "number" /\ n # NaN) =>
             result = IF n.neg \/ Len(n.d) <= 11
                        THEN (IF n.d = "0" THEN Num("0")
                              ELSE Number(n.neg, n.d \o "000"))
                      ELSE n
        /\ (n = JNull \/ n = Undef) => result = JNull
        /\ (n.t = "string" /\ IsDigits(n.s)) =>
             result = normalizeTimestamp(Denoted(n.s))

\* a digit-only string with leading zeros that denotes 10^11 has been
\* normalized: it is taken as milliseconds
C20_Witness ==
  /\ call.fn = "normalizeTimestamp"
  /\ call.input = Str("0100000000000")
  /\ result = Num("100000000000")


\* the call of transformRowToDetection has ended
Transformed == call.fn = "transformRowToDetection" /\ result # Pending

\* the metadata column is null or a string that is not valid JSON
NullOrInvalid(metadata) ==
  \/ metadata = JNull
  \/ metadata.t = "string" /\ metadata.s \notin DOMAIN JsonTexts

\* C18: transformRowToDetection never raises, whatever the metadata column
\* holds (null, an object, a string that is not valid JSON, a string that
\* parses to null, a number or a string): it returns a Detection; for
\* metadata null or invalid JSON that Detection has the row's plate_tag as
\* plate.tag and every vehicle field at its default.
C18_NeverRaises ==
  Transformed =>
    /\ result.t = "object"
    /\ NullOrInvalid(call.row.metadata) =>
         /\ call.row.plate_tag # JNull =>
              Get(Get(result, "plate"), "tag") = call.row.plate_tag
         /\ Get(result, "vehicle") = Obj(DefaultVehicle)

\* the paths of the Detection model
DetectionPaths ==
  { <<"id">>, <<"image">>, <<"location">>, <<"plate", "code">>,
    <<"plate", "region">>, <<"plate", "tag">>, <<"source", "id">>,
    <<"source", "name">>, <<"source", "type">>, <<"timeOfDay">>, <<"type">>,
    <<"version">>, <<"vehicle", "bearing">>, <<"vehicle", "color">>,
    <<"vehicle", "occlusion">>, <<"vehicle", "orientation">>,
    <<"vehicle", "make">>, <<"vehicle", "type">> }

\* the value at a path of one or two keys
At(value, path) ==
  IF Len(path) = 1 THEN Get(value, path[1])
  ELSE Get(Get(value, path[1]), path[2])

\* C19: every Detection that transformRowToDetection returns has a defined
\* value at every path of the Detection model, also for a partial plate or
\* source object and for a row without id.
C19_EveryFieldDefined ==
  (Transformed /\ result.t = "object") =>
    \A path \in DetectionPaths : At(result, path) # Undef


\* a request of SpecQuery has been answered
Replied(fn) == call.fn = fn /\ result # Pending

\* the Detections of rows first..last of an order
Positions(rows, first, last) ==
  Arr([i \in 1..(IF last < first THEN 0 ELSE last - first + 1) |->
         transformRowToDetection(rows[first + i - 1])])

\* the rows the camera, make and time-range filter of the request selects
Filtered == Where(detections, ListWhere(call.query))

\* C15: for a table and a camera/make/time-range filter selecting N rows, the
\* list route with page p >= 1 and limit L >= 1 answers the rows at positions
\* (p-1)*L+1 .. min(p*L, N) of the filtered set in descending timestamp
\* order, the count route answers N, and the export route with the same
\* filter answers all N rows.
C15_PageOfFilteredSet ==
  LET N == Cardinality(Filtered)
      p == ValueOf(call.query.page.s)
      L == ValueOf(call.query.limit.s)
  IN  /\ (Replied("list") /\ call.query.page # Undef
            /\ call.query.limit # Undef) =>
           \E rows \in OrderByTimestampDesc(Filtered) :
             result = Json(200, Positions(rows, (p - 1) * L + 1,
                                          IF p * L < N THEN p * L ELSE N))
      /\ Replied("count") => result = Json(200, Obj([total |-> Num(Decimal(N))]))
      /\ (Replied("export") /\ call.query.plateTag = Undef) =>
           \E rows \in OrderByTimestampDesc(Filtered) :
             result = Json(200, Positions(rows, 1, N))

\* the conditions of the route that was called
RouteWhere ==
  IF call.fn = "search" THEN SearchWhere(call.query)
  ELSE IF call.fn = "export" THEN ExportWhere(call.query)
  ELSE IF call.fn = "analytics" THEN AnalyticsWhere(call.query)
  ELSE ListWhere(call.query)

\* the rows the conditions other than the make select
OtherwiseSelected == Where(detections, [RouteWhere EXCEPT !.make = Undef])

\* the ids of the Detections in an answer
AnsweredIds == {result.body.a[i].o.id : i \in DOMAIN result.body.a}

RECURSIVE Sum(_)
Sum(counts) ==
  IF Len(counts) = 0 THEN 0 ELSE ValueOf(counts[1].o.detections.d) + Sum(Tail(counts))

\* the answer of the route shows exactly the rows of expected
Shows(expected) ==
  /\ call.fn = "count" => result.body.o.total = Num(Decimal(Cardinality(expected)))
  /\ call.fn = "analytics" => Sum(result.body.a) = Cardinality(expected)
  /\ (call.fn \in {"export", "search"} /\ result.status = 200) =>
       AnsweredIds = {row.id : row \in expected}
  /\ (call.fn = "list" /\ result.status = 200) =>
       AnsweredIds \subseteq {row.id : row \in expected}

\* the make filter asks for the rows without make
AsksUnknown ==
  /\ call.query.carMake # Undef
  /\ StrLower(StrTrim(call.query.carMake.s)) \in {"n/a", "unknown"}

\* "All Makes" and "All Cameras" add no condition
NoConditionForAll ==
  /\ call.query.carMake = Str("All Makes") => RouteWhere.make = Undef
  /\ call.query.cameraName = Str("All Cameras") => RouteWhere.camera = Undef

\* C16 as stated: a carMake of "N/A" or "unknown" in any letter case selects
\* exactly the rows whose make expression yields the value "unknown", that
\* is the rows with no non-empty make at any path.
C16_SelectsRowsWithoutMake ==
  (result # Pending /\ result.status # 400) =>
    /\ NoConditionForAll
    /\ AsksUnknown =>
         Shows({row \in OtherwiseSelected :
                  CarMakeSource(row.metadata) = "unknown"
                    /\ \A i \in DOMAIN MakePaths :
                         NullIfBlank(PathText(row.metadata, MakePaths[i]))
                           = SqlNull})

\* C16: on the list, count, search, export and analytics routes a carMake of
\* "N/A" or "unknown" in any letter case selects exactly the rows whose make
\* expression equals "unknown" when letter case is ignored (the rows with no
\* non-empty make at any path and the rows whose make is the word unknown);
\* "All Makes" and "All Cameras" add no condition.
C16_SelectsUnknownIgnoringCase ==
  (result # Pending /\ result.status # 400) =>
    /\ NoConditionForAll
    /\ AsksUnknown =>
         Shows({row \in OtherwiseSelected :
                  StrLower(CarMakeSource(row.metadata)) = "unknown"})

\* the count route was asked for "N/A" on a table with a row of make Toyota,
\* a row without metadata and a row of make Unknown, and answered 2
C16_Witness ==
  /\ Replied("count")
  /\ call.query.carMake = Str("N/A")
  /\ call.query.cameraName = Str("All Cameras")
  /\ {row.id : row \in detections} = {Num("1"), Num("2"), Num("3")}
  /\ call.query.startTimestamp = Undef /\ call.query.endTimestamp = Undef
  /\ result.body.o.total = Num("2")


\* normalizeTimestamp has returned for a number that is not NaN
NormalizedNumber ==
  /\ call.fn = "normalizeTimestamp"
  /\ result # Pending
  /\ call.input.t = "number"
  /\ call.input # NaN

\* C21 as stated: normalizeTimestamp(m) = m for every millisecond epoch m
\* (an integer m >= 0), and normalizeTimestamp(normalizeTimestamp(x)) =
\* normalizeTimestamp(x) for every number x.
C21_RoundTripEveryEpoch ==
  NormalizedNumber =>
    /\ ~call.input.neg => result = call.input
    /\ normalizeTimestamp(result) = result

\* C21: normalizeTimestamp(m) = m for every integer m >= 10^11 and for
\* m = 0, and normalizeTimestamp(normalizeTimestamp(x)) =
\* normalizeTimestamp(x) for every integer x >= 10^8 and for x = 0; a
\* smaller positive m is taken as seconds and gives m * 1000.
C21_RoundTripFromThreshold ==
  NormalizedNumber =>
    LET m == call.input
    IN  /\ (m = Num("0") \/ (~m.neg /\ Len(m.d) >= 12)) => result = m
        /\ (m = Num("0") \/ (~m.neg /\ Len(m.d) >= 9)) =>
             normalizeTimestamp(result) = result
        /\ (~m.neg /\ m # Num("0") /\ Len(m.d) <= 11) =>
             result = Number(FALSE, m.d \o "000")

\* a millisecond epoch of 2023 and the smallest one at the threshold have
\* come back unchanged
C21_Witness ==
  /\ NormalizedNumber
  /\ call.input \in {Num("1700000000000"), Num("100000000000")}
  /\ result = call.input


\* the query the route that was called has sent
SentQuery(fn, query) ==
  IF fn = "list" THEN ListQuery(query)
  ELSE IF fn = "count" THEN CountQuery(query)
  ELSE IF fn = "search" THEN SearchQuery(query)
  ELSE IF fn = "export" THEN ExportQuery(query)
  ELSE AnalyticsQuery(query)

IsPlaceholder(part) == "placeholder" \in DOMAIN part

\* the positions of the placeholders in a query text
PlaceholderPositions(text) == {i \in DOMAIN text : IsPlaceholder(text[i])}

\* the value the request gives to the predicate that ends a literal part
ValueFor(literal, query) ==
  CASE literal = "camera_name = " -> query.cameraName
    [] literal = "(LOWER(CAR_MAKE_SOURCE_SQL) = LOWER(" ->
         IF StrLower(StrTrim(query.carMake.s)) \in {"n/a", "unknown"}
           THEN Str("unknown") ELSE query.carMake
    [] literal = "timestamp >= " -> parseInt(query.startTimestamp.s)
    [] literal = "timestamp <= " -> parseInt(query.endTimestamp.s)
    [] literal \in {"LOWER(plate_tag) LIKE LOWER(",
                    " WHERE LOWER(plate_tag) LIKE LOWER("} ->
         Str("%" \o StrTrim(query.plateTag.s) \o "%")
    [] literal = " ORDER BY timestamp DESC LIMIT " ->
         IF query.limit = Undef THEN Num("50") ELSE Num(query.limit.s)
    [] literal = " OFFSET " ->
         Num(Decimal(((IF query.page = Undef THEN 1 ELSE ValueOf(query.page.s)) - 1)
                       * (IF query.limit = Undef THEN 50
                          ELSE ValueOf(query.limit.s))))
    [] OTHER -> Undef

\* a filter the request gives: a value that is not blank and is not the
\* word for all
Gives(value, all) ==
  value # Undef /\ value # Str(all) /\ value.s \notin {"", " "}

\* the request with every given filter value replaced by one fixed value
SameFilters(query) ==
  [page |-> Undef, limit |-> Undef,
   plateTag |-> IF Gives(query.plateTag, "") THEN Str("x") ELSE Undef,
   cameraName |-> IF Gives(query.cameraName, "All Cameras") THEN Str("x")
                  ELSE Undef,
   carMake |-> IF Gives(query.carMake, "All Makes") THEN Str("x") ELSE Undef,
   startTimestamp |-> IF Gives(query.startTimestamp, "") THEN Str("1")
                      ELSE Undef,
   endTimestamp |-> IF Gives(query.endTimestamp, "") THEN Str("1")
                    ELSE Undef]

\* C22: the query a route has sent has as many parameters as its text has
\* placeholders, the placeholders are numbered 1..k in order of appearance,
\* the parameter at position i is the value of the predicate that uses $i,
\* and the text is the same for every request that gives the same filters,
\* whatever their values: no value is written into the text.
C22_ValuesAreBound ==
  (result # Pending /\ result.status # 400) =>
    LET sent == SentQuery(call.fn, call.query)
        at == PlaceholderPositions(sent.text)
    IN  /\ Cardinality(at) = Len(sent.params)
        /\ \A i \in at :
             /\ sent.text[i].placeholder = Cardinality({j \in at : j <= i})
             /\ sent.params[sent.text[i].placeholder]
                  = ValueFor(sent.text[i - 1].literal, call.query)
        /\ sent.text = SentQuery(call.fn, SameFilters(call.query)).text

\* the search route has sent a query with the plate, the camera, the make
\* and the end of the range, four parameters for four placeholders
C22_Witness ==
  /\ call.fn = "search"
  /\ result # Pending
  /\ call.query.plateTag = Str(" abc ")
  /\ call.query.cameraName = Str("Gate")
  /\ call.query.carMake = Str("N/A")
  /\ SearchQuery(call.query).params
       = <<Str("%abc%"), Str("Gate"), Str("unknown"), Num("200")>>
  /\ Cardinality(PlaceholderPositions(SearchQuery(call.query).text)) = 4


\* the first value of a sequence that is not null, null when there is none
FirstNonNull(values) ==
  LET found == {i \in DOMAIN values : values[i] # JNull}
  IN  IF found = {} THEN JNull
      ELSE values[CHOOSE i \in found : \A j \in found : i <= j]

\* C23: the timestamp of a Detection is the first non-null result of
\* normalizeTimestamp applied to metadata.timestamp, the timestamp column
\* and metadata.image.timestamp, in this order, and null only when all
\* three are null; a first result of 0 is used.
C23_FirstNonNullTimestamp ==
  (Transformed /\ result.t = "object") =>
    LET metadata == ParsedMetadata(call.row)
    IN  Get(result, "timestamp") =
          FirstNonNull(<<normalizeTimestamp(Get(metadata, "timestamp")),
                         normalizeTimestamp(call.row.timestamp),
                         normalizeTimestamp(
                           Get(Get(metadata, "image"), "timestamp"))>>)


\* C24: when extractVehicleMake finds a make in the metadata, with or
\* without a vehicle object, the Detection's vehicle.make is that make with
\* the code in lower case and the name in title case; when it finds none,
\* vehicle.make is the inline make of the vehicle object or the default
\* {code: "unknown", name: "N/A"}.
C24_ResolverOverrides ==
  (Transformed /\ result.t = "object") =>
    LET metadata == ParsedMetadata(call.row)
        found == extractVehicleMake(metadata)
        inline == Get(VehicleData(metadata), "make")
        make == Get(Get(result, "vehicle"), "make")
    IN  /\ found # JNull =>
             make = Obj([code |-> Str(StrLower(found.o.code.s)),
                         name |-> Str(toTitleCase(found.o.name.s))])
        /\ (found = JNull /\ Falsy(inline)) => make = UnknownNA
        /\ (found = JNull /\ inline.t = "string" /\ inline.s # "") =>
             make = Obj([code |-> Str(StrLower(inline.s)),
                         name |-> Str(toTitleCase(inline.s))])


\* the make a Detection is displayed with, in lower case, "unknown" for the
\* default make
DisplayedMake(detection) ==
  LET make == Get(Get(detection, "vehicle"), "make")
  IN  IF make = UnknownNA THEN "unknown" ELSE StrLower(Get(make, "name").s)

\* C25: for every row whose metadata is a document or null, the value of
\* CAR_MAKE_SOURCE_SQL equals, letter case ignored, the make of the
\* Detection built from the row ("unknown" when it has none).
C25_QueryMakeIsDisplayedMake ==
  (Transformed /\ result.t = "object"
     /\ call.row.metadata.t \in {"object", "null"}) =>
    StrLower(CarMakeSource(call.row.metadata)) = DisplayedMake(result)


\* no stored token with this id is unverified: none can be presented again
Consumed(id) == \A t \in otp_tokens : t.id = id => t.verified

\* the handlers of verify-otp and signup
OtpHandlers ==
  {h \in Handlers : h.route \in {"/api/auth/verify-otp", "/api/auth/signup"}}

\* C26 as stated: a verify-otp or signup request that has passed the
\* code-and-expiry check has consumed its token whenever it ends.
C26_ConsumedAtEveryEnd ==
  [][\A h \in OtpHandlers :
       inflight' = inflight (-) One(h) =>
         \A t \in otp_tokens' : t.id = h.otpData.id => t.verified]_vars

\* C26: a verify-otp or signup handler that is past its UPDATE (it is about
\* to look up the user, to create the user or to insert the session) has
\* marked its token verified, and a verified token never becomes unverified
\* again, however the request ends (404 requiresSignup, 400 "User already
\* exists", 500); only a request whose UPDATE itself is rejected ends with
\* its token unverified.
C26_MarkedBeforeLookup ==
  /\ [](\A h \in OtpHandlers : h.pc # "mark" => Consumed(h.otpData.id))
  /\ [][\A t \in otp_tokens :
          t.verified => \A u \in otp_tokens' : u.id = t.id => u.verified]_vars
  /\ [][\A h \in OtpHandlers :
          (h.pc # "mark" /\ inflight' = inflight (-) One(h)) =>
            \A t \in otp_tokens' : t.id = h.otpData.id => t.verified]_vars

\* a request has ended without a session and has left its token verified
C26_Witness ==
  /\ inflight = EmptyBag
  /\ minted = {}
  /\ \E t \in otp_tokens : t.verified


\* the stored unverified tokens with the email and the code of a request
Matching(email, otp) ==
  {t \in otp_tokens : /\ t.email = normalizeEmail(email)
                      /\ t.otp_code = trim(otp)
                      /\ ~t.verified}

\* no unverified token matches, or the newest one that matches is expired
NotAccepted(email, otp) ==
  /\ email # <<>> /\ otp # <<>>
  /\ \A t \in Matching(email, otp) :
       (\A o \in Matching(email, otp) : o.created_at <= t.created_at) =>
         now > t.expires_at

\* a request that is not accepted is answered 401 at its first query, the
\* SELECT of the token, and ends there
Answers401 ==
  \A email \in RawEmails, otp \in RawOtps, name \in Names :
    NotAccepted(email, otp) =>
      /\ VerifyOtpBegin(email, otp, TRUE)
           = Answered(401, "Invalid or expired OTP")
      /\ SignupBegin(email, name, otp, TRUE)
           = Answered(401, "Invalid or expired OTP")

\* C27: a verify-otp or signup request for which no unverified token
\* matches email and code, or whose matching token is expired, is answered
\* 401 at its first query and ends there (in the first state and after
\* every step that changes the tokens or the clock, on which alone this
\* depends), and no step that changes the stored tokens, users or sessions
\* is the step of such a request.
C27_RejectedChangesNothing ==
  /\ Answers401
  /\ [][(otp_tokens' # otp_tokens \/ now' # now) => Answers401']_vars
  /\ [][db' # db =>
          \A email \in RawEmails, otp \in RawOtps, name \in Names :
            NotAccepted(email, otp) =>
              /\ ~VerifyOtpStart(email, otp, TRUE)
              /\ ~SignupStart(email, name, otp, TRUE)]_vars

\* a token has been consumed and another has expired unverified: requests
\* that present either are answered 401
C27_Witness ==
  /\ \E t \in otp_tokens : t.verified /\ NotAccepted(t.email, t.otp_code)
  /\ \E t \in otp_tokens : ~t.verified /\ NotAccepted(t.email, t.otp_code)
  /\ \A t \in otp_tokens :
       VerifyOtpBegin(t.email, t.otp_code, TRUE).status = 401


\* verify-otp accepts the email and the code: it goes on to mark a token
Accepted(email, otp) == VerifyOtpBegin(email, otp, TRUE).suspend # {}

\* C28: the step of send-otp in which the INSERT succeeds and the email
\* dispatch fails ends the request with 500 and leaves the new token stored
\* and unverified next to the tokens that were there, those deleted before
\* stay deleted, and a verify-otp that presents the code right then (the
\* code has not expired) is accepted.
C28_FailedDispatchKeepsToken ==
  [][nOtp' # nOtp =>
       \A h \in Handlers :
         (h.route = "/api/auth/send-otp"
            /\ SendOtpInsert(h, TRUE, FALSE)) =>
           /\ SendOtpAnswer(h, TRUE, FALSE)
                = Answered(500, "Failed to send OTP email")
           /\ otp_tokens'
                = otp_tokens \cup {NewOtp(h.email, h.otp, h.expiresAt)}
           /\ ~NewOtp(h.email, h.otp, h.expiresAt).verified
           /\ now' <= h.expiresAt
           /\ Accepted(h.email, h.otp)']_vars

\* a second send-otp for an email has ended: the first token is deleted,
\* the second is stored unverified and its code is accepted
C28_Witness ==
  /\ inflight = EmptyBag
  /\ nOtp = 2
  /\ Cardinality(otp_tokens) = 1
  /\ \E t \in otp_tokens :
       /\ t.created_at = 2 /\ ~t.verified
       /\ \A o \in otp_tokens : o.email = t.email => o = t
       /\ Accepted(t.email, t.otp_code)


\* C29: the DELETE of a logout removes the session whose token was
\* presented and no other row: every other session, every user and every
\* token is unchanged; and the step that inserts a session removes none and
\* leaves every session that was valid before valid, so a user may hold
\* several valid sessions at once.
C29_LogoutRemovesOneSession ==
  [][sessions' # sessions =>
       /\ \A h \in Handlers :
            (h.route = "/api/auth/logout" /\ LogoutDelete(h, TRUE)) =>
              /\ sessions' = {s \in sessions :
                                <<s.session_token>> # h.sessionToken}
              /\ Cardinality(sessions \ sessions') = 1
              /\ users' = users
              /\ otp_tokens' = otp_tokens
       /\ nSess' # nSess =>
            /\ sessions \subseteq sessions'
            /\ \A s \in sessions :
                 Len(SelectSession(<<s.session_token>>)) > 0 =>
                   Len(SelectSession(<<s.session_token>>)') > 0]_vars

\* a user has logged in twice and logged out of one session: the other
\* session is still valid
C29_Witness ==
  \E m1, m2 \in minted :
    /\ m1.token # m2.token
    /\ m1.user.id = m2.user.id
    /\ <<m1.token>> \in loggedOut
    /\ \A s \in sessions : s.session_token # m1.token
    /\ Len(SelectSession(<<m2.token>>)) > 0


\* C30: once no search request is in flight, searchResults holds what the
\* callback of the latest searchPlate has set (null after clearSearch), and
\* searching is false only when no search request is in flight.
C30_LatestInvocationWins ==
  /\ subscriptions = {} =>
       /\ latest.fn = "searchPlate" =>
            \E d \in delivered :
              d.id = latest.id /\ searchResults = d.results
       /\ latest.fn = "clearSearch" => searchResults = JNull
  /\ ~searching => subscriptions = {}

====
